---- MODULE Spec2Model ----
(***************************************************************************)
(* Document model and undo engine (src/canvas_model.py), the item factory  *)
(* it uses (src/canvas_items.py) and the render order of the painter       *)
(* (src/canvas_renderer.py).                                               *)
(*                                                                         *)
(* Numbers are Python floats; the model stores them as integers counting   *)
(* tenths (10 is 1.0, 1 is 0.1).  Values that cross the QML boundary are   *)
(* tagged (Num, Str, None) so that float() and str() are conversions that  *)
(* can fail or change the value.                                           *)
(*                                                                         *)
(* Of an item's fields the model keeps one position (x / centerX), one     *)
(* size (width / radiusX), strokeWidth, fillColor and fillOpacity; the     *)
(* remaining fields (y, height, centerY, radiusY, strokeColor) are handled *)
(* by the same statements as the ones kept.  strokeOpacity is read by      *)
(* _itemToDict and written by updateItem but is not set by the             *)
(* RectangleItem constructor of src/canvas_items.py, so it is left out.    *)
(***************************************************************************)
EXTENDS Integers, Sequences, FiniteSets, TLC

\* ---------------------------------------------------------------- bounds
MaxCalls == 5
MaxReentrant == 1
MaxRenderItems == 3
MaxCacheCalls == 3
MaxBuilderSteps == 6
MaxIdSteps == 4
MaxPathPoints == 3
MaxFlaggedItems == 2
MaxMoveItems == 4
MaxPivot == 2
MaxResize == 3

\* ------------------------------------------------- values at the boundary
Num(n) == [kind |-> "num", num |-> n, str |-> ""]
Str(s) == [kind |-> "str", num |-> 0, str |-> s]
None == [kind |-> "none", num |-> 0, str |-> ""]

\* float(v): a number is kept, a string is parsed, None is a TypeError
PyFloat(v) ==
    CASE v.kind = "num" -> [ok |-> TRUE, val |-> v.num]
      [] v.kind = "str" /\ v.str = "20" -> [ok |-> TRUE, val |-> 200]
      [] v.kind = "str" /\ v.str = "-20" -> [ok |-> TRUE, val |-> -200]
      [] v.kind = "str" /\ v.str = "0.5" -> [ok |-> TRUE, val |-> 5]
      [] OTHER -> [ok |-> FALSE, val |-> 0]

\* str(v): a string is kept, None becomes the text "None"
PyStr(v) ==
    CASE v.kind = "str" -> v.str
      [] v.kind = "none" -> "None"
      [] v.kind = "num" /\ v.num = 50 -> "5.0"

Max(a, b) == IF a >= b THEN a ELSE b
Min(a, b) == IF a <= b THEN a ELSE b

\* dict.get(key, default)
Get(d, k, default) == IF k \in DOMAIN d THEN d[k] ELSE default

\* -------------------------------------------------------------- the items
RectangleItem_from_dict(data) ==
    LET x == PyFloat(Get(data, "x", Num(0)))
        width == PyFloat(Get(data, "width", Num(0)))
        sw == PyFloat(Get(data, "strokeWidth", Num(10)))
        fo == PyFloat(Get(data, "fillOpacity", Num(0)))
    IN  [ok |-> x.ok /\ width.ok /\ sw.ok /\ fo.ok,
         item |-> [cls |-> "RectangleItem", x |-> x.val, width |-> width.val,
                   stroke_width |-> sw.val,
                   fill_color |-> Get(data, "fillColor", Str("#ffffff")),
                   fill_opacity |-> fo.val]]

EllipseItem_from_dict(data) ==
    LET cx == PyFloat(Get(data, "centerX", Num(0)))
        rx == PyFloat(Get(data, "radiusX", Num(0)))
        sw == PyFloat(Get(data, "strokeWidth", Num(10)))
        fo == PyFloat(Get(data, "fillOpacity", Num(0)))
    IN  [ok |-> cx.ok /\ rx.ok /\ sw.ok /\ fo.ok,
         item |-> [cls |-> "EllipseItem", center_x |-> cx.val, radius_x |-> rx.val,
                   stroke_width |-> sw.val,
                   fill_color |-> Get(data, "fillColor", Str("#ffffff")),
                   fill_opacity |-> fo.val]]

itemToDict(item) ==
    IF item.cls = "RectangleItem"
    THEN [type |-> Str("rectangle"), x |-> Num(item.x), width |-> Num(item.width),
          strokeWidth |-> Num(item.stroke_width), fillColor |-> item.fill_color,
          fillOpacity |-> Num(item.fill_opacity)]
    ELSE [type |-> Str("ellipse"), centerX |-> Num(item.center_x),
          radiusX |-> Num(item.radius_x),
          strokeWidth |-> Num(item.stroke_width), fillColor |-> item.fill_color,
          fillOpacity |-> Num(item.fill_opacity)]

createItem(item_data) ==
    IF Get(item_data, "type", Str("")) = Str("rectangle")
    THEN RectangleItem_from_dict(item_data).item
    ELSE EllipseItem_from_dict(item_data).item

\* ------------------------------------------------------------- list helpers
\* 0 <= index < len(self._items)
ValidIndex(m, index) == 0 <= index /\ index < Len(m.items)

\* del s[0] in the place of del s[i]
DelAtHead(s, i) == Tail(s)

\* del s[i], Python indexing (i counts from 0, a negative i from the end)
DelAt(s, i) ==
    LET j == IF i < 0 THEN i + Len(s) ELSE i
    IN  SubSeq(s, 1, j) \o SubSeq(s, j + 2, Len(s))

\* s.append(e) in the place of s.insert(i, e)
InsertAtEnd(s, i, e) == Append(s, e)

\* s.insert(i, e): an index past the end appends
InsertAt(s, i, e) ==
    LET j == Min(i, Len(s))
    IN  SubSeq(s, 1, j) \o <<e>> \o SubSeq(s, j + 1, Len(s))

\* s[i] = e
SetAt(s, i, e) == [s EXCEPT ![i + 1] = e]

ItemDicts(s) == [k \in 1..Len(s) |-> itemToDict(s[k])]
CreateAll(ds) == [k \in 1..Len(ds) |-> createItem(ds[k])]

\* ---------------------------------------------------------------- commands
\* ("remove" | "add" | "update", index, item_data)
CmdItem(a, i, d) ==
    [action |-> a, index |-> i, data |-> d, changes |-> <<>>, snapshot |-> <<>>]
\* ("transaction", changes): the changes in the order the dict holds them
CmdTransaction(ch) ==
    [action |-> "transaction", index |-> -1, data |-> <<>>, changes |-> ch,
     snapshot |-> <<>>]
\* ("restore_all" | "clear_all", snapshot)
CmdAll(a, snap) ==
    [action |-> a, index |-> -1, data |-> <<>>, changes |-> <<>>, snapshot |-> snap]

\* what a handler connected to a notification sees of the model when the
\* notification is delivered, which is when it is emitted
Observed(m) ==
    [items |-> m.items, undo_stack |-> m.undo_stack, redo_stack |-> m.redo_stack]
Sig(name, arg, m) == [sig |-> name, arg |-> arg, at |-> Observed(m)]
Emit(m, name, arg) == [m EXCEPT !.signals = Append(@, Sig(name, arg, m))]

\* ------------------------------------------------- the model's operations
\* Each takes the model object m (its fields) and returns the object after
\* the call, with the notifications it emitted appended to m.signals.

\* _push_undo without the clearing of the redo stack
push_undo_keeping_redo(m, command) ==
    Emit([m EXCEPT !.undo_stack = Append(@, command)], "undoStackChanged", -1)

push_undo(m, command) ==
    LET m1 == [m EXCEPT !.undo_stack = Append(@, command)]
        m2 == IF m1.redo_stack # <<>> /\ ~m1.undoing /\ ~m1.redoing
              THEN Emit([m1 EXCEPT !.redo_stack = <<>>], "redoStackChanged", -1)
              ELSE m1
    IN  Emit(m2, "undoStackChanged", -1)

push_redo(m, command) ==
    Emit([m EXCEPT !.redo_stack = Append(@, command)], "redoStackChanged", -1)

\* the guard of the structural operations and of clear
Recording(m) == ~m.undoing /\ ~m.redoing
\* the guard of updateItem without its transaction test
RecordingUpdateInTransaction(m) == ~m.undoing /\ ~m.redoing
\* the guard of updateItem
RecordingUpdate(m) == ~m.undoing /\ ~m.redoing /\ ~m.transaction_active

\* a beginTransaction without the test for an open transaction
beginTransactionAgain(m) ==
    [m EXCEPT !.transaction_active = TRUE, !.transaction_snapshot = ItemDicts(m.items)]

beginTransaction(m) ==
    IF m.transaction_active THEN m
    ELSE [m EXCEPT !.transaction_active = TRUE,
                   !.transaction_snapshot = ItemDicts(m.items)]

\* the changes dict of endTransaction, as the sequence of its entries
RECURSIVE TxChanges(_, _, _)
TxChanges(snapshot, its, k) ==
    IF k > Len(snapshot) THEN <<>>
    ELSE LET rest == TxChanges(snapshot, its, k + 1)
         IN  IF k - 1 < Len(its) /\ itemToDict(its[k]) # snapshot[k]
             THEN <<[index |-> k - 1, props |-> snapshot[k]]>> \o rest
             ELSE rest

\* endTransaction without the "if changes" test
endTransactionAlways(m) ==
    IF ~m.transaction_active THEN m
    ELSE push_undo([m EXCEPT !.transaction_active = FALSE,
                             !.transaction_snapshot = <<>>],
                   CmdTransaction(TxChanges(m.transaction_snapshot, m.items, 1)))

endTransaction(m) ==
    IF ~m.transaction_active THEN m
    ELSE LET changes == TxChanges(m.transaction_snapshot, m.items, 1)
             m1 == [m EXCEPT !.transaction_active = FALSE,
                             !.transaction_snapshot = <<>>]
         IN  IF changes # <<>> THEN push_undo(m1, CmdTransaction(changes)) ELSE m1

\* a type no branch takes falls through to the ellipse branch
KnownTypeOrElse(item_type) == TRUE

\* item_type == "rectangle" / elif item_type == "ellipse" / else: return
KnownType(item_type) == item_type \in {Str("rectangle"), Str("ellipse")}

addItem(m, item_data) ==
    LET item_type == Get(item_data, "type", Str(""))
        made == IF item_type = Str("rectangle")
                THEN RectangleItem_from_dict(item_data)
                ELSE EllipseItem_from_dict(item_data)
    IN  IF ~KnownType(item_type)
        THEN [m |-> m, ret |-> "unknown_type"]
        ELSE IF ~made.ok THEN [m |-> m, ret |-> "failed"]
        ELSE LET m1 == [m EXCEPT !.items = Append(@, made.item)]
                 new_index == Len(m1.items) - 1
                 m2 == IF Recording(m1)
                       THEN push_undo(m1, CmdItem("remove", new_index,
                                                  itemToDict(made.item)))
                       ELSE m1
             IN  [m |-> Emit(m2, "itemAdded", new_index), ret |-> "ok"]

removeItem(m, index) ==
    IF ValidIndex(m, index)
    THEN LET item_data == itemToDict(m.items[index + 1])
             m1 == IF Recording(m) THEN push_undo(m, CmdItem("add", index, item_data))
                   ELSE m
             m2 == [m1 EXCEPT !.items = DelAt(@, index)]
         IN  [m |-> Emit(m2, "itemRemoved", index), ret |-> "ok"]
    ELSE [m |-> m, ret |-> "invalid_index"]

clear(m) ==
    LET m1 == IF Recording(m) /\ m.items # <<>>
              THEN push_undo(m, CmdAll("restore_all", ItemDicts(m.items)))
              ELSE m
    IN  [m |-> Emit([m1 EXCEPT !.items = <<>>], "itemsCleared", -1), ret |-> "ok"]

ClampSize(v) == Max(0, v)
ClampStrokeWidth(v) == Max(1, Min(1000, v))
ClampOpacity(v) == Max(0, Min(10, v))
\* the expression around float(...) in the assignment of a field
Clamped(field, v) ==
    CASE field \in {"width", "radius_x"} -> ClampSize(v)
      [] field = "stroke_width" -> ClampStrokeWidth(v)
      [] field = "fill_opacity" -> ClampOpacity(v)
      [] OTHER -> v

\* one "if key in properties: item.field = ... float(properties[key])"
\* statement of updateItem; acc.ok turns FALSE at the first conversion that
\* raises
AssignFloat(acc, properties, key, field) ==
    IF ~acc.ok \/ key \notin DOMAIN properties THEN acc
    ELSE LET f == PyFloat(properties[key])
         IN  IF f.ok THEN [acc EXCEPT !.item[field] = Clamped(field, f.val)]
             ELSE [acc EXCEPT !.ok = FALSE]

\* the try block of updateItem up to the first exception
UpdateFields(item, properties) ==
    LET a0 == [item |-> item, ok |-> TRUE]
        a1 == IF item.cls = "RectangleItem"
              THEN AssignFloat(a0, properties, "x", "x")
              ELSE AssignFloat(a0, properties, "centerX", "center_x")
        a2 == IF item.cls = "RectangleItem"
              THEN AssignFloat(a1, properties, "width", "width")
              ELSE AssignFloat(a1, properties, "radiusX", "radius_x")
        a3 == AssignFloat(a2, properties, "strokeWidth", "stroke_width")
        a4 == IF a3.ok /\ "fillColor" \in DOMAIN properties
              THEN [a3 EXCEPT !.item.fill_color = Str(PyStr(properties["fillColor"]))]
              ELSE a3
    IN  AssignFloat(a4, properties, "fillOpacity", "fill_opacity")

updateItem(m, index, properties) ==
    IF ~ValidIndex(m, index) THEN [m |-> m, ret |-> "invalid_index"]
    ELSE LET item == m.items[index + 1]
             old_props == itemToDict(item)
             upd == UpdateFields(item, properties)
             \* the item object is mutated in place, also when a later
             \* conversion raises
             m1 == [m EXCEPT !.items = SetAt(@, index, upd.item)]
         IN  IF ~upd.ok THEN [m |-> m1, ret |-> "failed"]
             ELSE LET m2 == IF RecordingUpdate(m1)
                            THEN push_undo(m1, CmdItem("update", index, old_props))
                            ELSE m1
                  IN  [m |-> Emit(m2, "itemModified", index), ret |-> "ok"]

count(m) == Len(m.items)
\* availability that counts one entry too few
canUndoOffByOne(m) == Len(m.undo_stack) > 1

canUndo(m) == Len(m.undo_stack) > 0
canRedo(m) == Len(m.redo_stack) > 0

\* None is modelled as the empty dict's absence: [found, data]
getItemData(m, index) ==
    IF ValidIndex(m, index)
    THEN [found |-> TRUE, data |-> itemToDict(m.items[index + 1])]
    ELSE [found |-> FALSE, data |-> <<>>]

\* ------------------------------------------------------- replay of commands
\* a replay that pushes every inverse command onto the undo stack
ReplayPushOntoUndo(op, m, command) == push_undo(m, command)

\* undo() pushes the inverse command with _push_redo, redo() with _push_undo
ReplayPush(op, m, command) ==
    IF op = "undo" THEN push_redo(m, command) ELSE push_undo(m, command)

\* The branch of undo()/redo() for one command other than a transaction.
\* exc: the branch raised IndexError before it changed anything.
ReplayCommand(op, m, command) ==
    LET push(m1, c) == ReplayPush(op, m1, c)
        index == command.index
        action == command.action
    IN  CASE action = "remove" ->
               IF index < Len(m.items)
               THEN [exc |-> FALSE,
                     m |-> Emit(push([m EXCEPT !.items = DelAt(@, index)],
                                     CmdItem("add", index, command.data)),
                                "itemRemoved", index)]
               ELSE [exc |-> TRUE, m |-> m]
          [] action = "add" ->
               [exc |-> FALSE,
                m |-> Emit(push([m EXCEPT !.items =
                                     InsertAt(@, index, createItem(command.data))],
                                CmdItem("remove", index, command.data)),
                           "itemAdded", index)]
          [] action = "update" ->
               IF index < Len(m.items)
               THEN LET current_props == itemToDict(m.items[index + 1])
                    IN  [exc |-> FALSE,
                         m |-> Emit(push([m EXCEPT !.items =
                                              SetAt(@, index, createItem(command.data))],
                                         CmdItem("update", index, current_props)),
                                    "itemModified", index)]
               ELSE [exc |-> TRUE, m |-> m]
          [] action = "restore_all" ->
               LET current_snapshot == ItemDicts(m.items)
                   m1 == push([m EXCEPT !.items = CreateAll(command.snapshot)],
                              CmdAll("clear_all", current_snapshot))
               IN  [exc |-> FALSE,
                    m |-> [m1 EXCEPT !.signals = @ \o
                              [k \in 1..Len(m1.items) |-> Sig("itemAdded", k - 1, m1)]]]
          [] action = "clear_all" ->
               LET current_snapshot == ItemDicts(m.items)
               IN  [exc |-> FALSE,
                    m |-> Emit(push([m EXCEPT !.items = <<>>],
                                    CmdAll("restore_all", current_snapshot)),
                               "itemsCleared", -1)]

\* One iteration of the loop of the "transaction" branch: rec is the entry
\* added to redo_changes / undo_changes.
ReplayEntry(m, entry) ==
    IF entry.index < Len(m.items)
    THEN [exc |-> FALSE,
          rec |-> [index |-> entry.index,
                   props |-> itemToDict(m.items[entry.index + 1])],
          m |-> Emit([m EXCEPT !.items = SetAt(@, entry.index, createItem(entry.props))],
                     "itemModified", entry.index)]
    ELSE [exc |-> TRUE, rec |-> entry, m |-> m]

\* the finally block: the flag is reset, then the stack notification is sent
ReplayFinallyUndo(m) == Emit([m EXCEPT !.undoing = FALSE], "undoStackChanged", -1)
ReplayFinallyRedo(m) == Emit([m EXCEPT !.redoing = FALSE], "redoStackChanged", -1)

Last(s) == s[Len(s)]
Front(s) == SubSeq(s, 1, Len(s) - 1)

ReplayFinally(op, m) == IF op = "undo" THEN ReplayFinallyUndo(m) ELSE ReplayFinallyRedo(m)

\* the loop of the "transaction" branch and the push that follows it; an entry
\* that raises leaves the entries before it replayed
RECURSIVE ReplayTransaction(_, _, _, _)
ReplayTransaction(op, m, todo, done) ==
    IF todo = <<>> THEN [exc |-> FALSE, m |-> ReplayPush(op, m, CmdTransaction(done))]
    ELSE LET r == ReplayEntry(m, Head(todo))
         IN  IF r.exc THEN [exc |-> TRUE, m |-> m]
             ELSE ReplayTransaction(op, r.m, Tail(todo), Append(done, r.rec))

ReplayBody(op, m, command) ==
    IF command.action = "transaction"
    THEN ReplayTransaction(op, m, command.changes, <<>>)
    ELSE ReplayCommand(op, m, command)

\* undo() and redo() with no handler calling back into the model
undo(m) ==
    IF m.undo_stack = <<>> THEN [m |-> m, ret |-> "false"]
    ELSE LET command == Last(m.undo_stack)
             r == ReplayBody("undo",
                             [m EXCEPT !.undo_stack = Front(@), !.undoing = TRUE],
                             command)
         IN  [m |-> ReplayFinallyUndo(r.m), ret |-> IF r.exc THEN "raised" ELSE "true"]

redo(m) ==
    IF m.redo_stack = <<>> THEN [m |-> m, ret |-> "false"]
    ELSE LET command == Last(m.redo_stack)
             r == ReplayBody("redo",
                             [m EXCEPT !.redo_stack = Front(@), !.redoing = TRUE],
                             command)
         IN  [m |-> ReplayFinallyRedo(r.m), ret |-> IF r.exc THEN "raised" ELSE "true"]

\* -------------------------------------------------------------------- state
VARIABLES
    items, undo_stack, redo_stack, undoing, redoing,    \* CanvasModel fields
    transaction_active, transaction_snapshot,
    signals,    \* the notifications emitted by the running / the last call
    calls,      \* the number of calls made from outside
    pc,         \* "idle", or where a running undo()/redo() stands
    frame,      \* the locals of the running undo()/redo()
    last,       \* the last call that returned, and what it returned
    track,      \* which history is recorded in this run
    base, clean, edits,   \* history "base": the items when the undo stack was
                          \* last empty, and what was called since
    before,     \* history "pair": the state before the last undo()/redo()
    txn,        \* history "txn": the transaction opened last
    rItems, rOrder, rpc,  \* the renderer: its model's items, the order painted
    held,       \* the item objects the caller of the texture cache holds
    cache, item_versions,   \* TextureCache fields
    rasters,    \* the number of images rasterized so far
    tcalls,     \* the number of calls and edits made on the cache side
    got,        \* the last get_or_create call and what it returned
    seen,       \* per key, the last get_or_create call made with it
    subject,    \* the item that is serialized
    wire,       \* item_to_dict(subject)
    parsed,     \* parse_item(wire)
    spc,        \* how far the round trip of subject got
    builder,    \* the scene builder: its rebuild flag, zoom level and tile origin
    bnote,      \* what the scene builder was last told
    bprev,      \* the rebuild flag before that
    bsteps,     \* the number of steps of the scene builder
    fn,         \* the function applied last to arg, "none" before
    arg,        \* the input a function is applied to
    out         \* what the function returned

mvars == <<items, undo_stack, redo_stack, undoing, redoing, transaction_active,
           transaction_snapshot, signals>>
hvars == <<track, base, clean, edits, before, txn>>
rvars == <<rItems, rOrder, rpc>>
tvars == <<held, cache, item_versions, rasters, tcalls, got, seen>>
svars == <<subject, wire, parsed, spc>>
bvars == <<builder, bnote, bprev, bsteps>>
pvars == <<fn, arg, out>>
ovars == <<tvars, svars, bvars, pvars>>
vars == <<mvars, calls, pc, frame, last, hvars, rvars, ovars>>

Self ==
    [items |-> items, undo_stack |-> undo_stack, redo_stack |-> redo_stack,
     undoing |-> undoing, redoing |-> redoing,
     transaction_active |-> transaction_active,
     transaction_snapshot |-> transaction_snapshot, signals |-> signals]

\* the object at the start of a call from outside: the log of signals restarts
Start == [Self EXCEPT !.signals = <<>>]

Becomes(m) ==
    /\ items' = m.items
    /\ undo_stack' = m.undo_stack
    /\ redo_stack' = m.redo_stack
    /\ undoing' = m.undoing
    /\ redoing' = m.redoing
    /\ transaction_active' = m.transaction_active
    /\ transaction_snapshot' = m.transaction_snapshot
    /\ signals' = m.signals

\* ------------------------------------------------------------------- inputs
RectInput == [type |-> Str("rectangle"), x |-> Num(100), width |-> Str("-20")]
EllipseInput == [type |-> Str("ellipse"), radiusX |-> Num(-50),
                 fillColor |-> Str("None")]
UnknownTypeInput == [type |-> Str("triangle"), x |-> Num(100)]
NoTypeInput == [x |-> Num(100)]
MalformedInput == [type |-> Str("rectangle"), x |-> None, width |-> Str("abc")]
AddInputs == {RectInput, EllipseInput, UnknownTypeInput, NoTypeInput, MalformedInput}

\* accepted: every field of a rectangle is converted, two of them clamped
MoveProps == [x |-> Num(50), centerX |-> Num(50), width |-> Num(-30), fillColor |-> None]
\* x is accepted, width is malformed
PartialProps == [x |-> Num(50), width |-> Str("abc")]
UpdateInputs == {MoveProps, PartialProps}

\* the indices tried: every valid one, one below and one above
Indices == -1..2

\* ------------------------------------------------------------------ history
NoFrame == [op |-> "none", todo |-> <<>>, done |-> <<>>, exc |-> FALSE, reent |-> 0]
NoBefore == [op |-> "none", items |-> <<>>, undo_stack |-> <<>>, redo_stack |-> <<>>,
             second |-> FALSE]
NoTxn == [state |-> "none", pure |-> FALSE, pushed |-> FALSE, begin_items |-> <<>>,
          ulen |-> 0]

Returned(op, ret) == [op |-> op, ret |-> ret, nested |-> FALSE, phase |-> "idle"]

\* history "base" after a call from outside
TrackBase(op, ret, m2) ==
    LET keep == \/ op \in {"addItem", "removeItem"} /\ ~transaction_active
                \/ op = "undo"
    IN  IF track # "base" THEN UNCHANGED <<base, clean, edits>>
        ELSE IF m2.undo_stack = <<>>
        THEN IF keep /\ clean THEN UNCHANGED <<base, clean, edits>>
             ELSE base' = m2.items /\ clean' = TRUE /\ edits' = {}
        ELSE /\ base' = base
             /\ clean' = (clean /\ keep)
             /\ edits' = IF keep /\ ret = "ok" THEN edits \cup {op} ELSE edits

\* history "txn" after a call from outside
TrackTxn(op, ret, m2) ==
    IF track # "txn" THEN UNCHANGED txn
    ELSE txn' =
        CASE op = "beginTransaction" /\ ~transaction_active ->
               [state |-> "open", pure |-> TRUE, pushed |-> FALSE,
                begin_items |-> items, ulen |-> 0]
          [] txn.state = "open" /\ op = "updateItem" ->
               [txn EXCEPT !.pure = @ /\ ret # "invalid_index"]
          [] txn.state = "open" /\ op = "endTransaction" ->
               [txn EXCEPT !.state = "ended", !.ulen = Len(undo_stack),
                           !.pushed = Len(m2.undo_stack) > Len(undo_stack)]
          [] txn.state = "open" -> [txn EXCEPT !.pure = FALSE]
          [] txn.state = "ended" /\ txn.pushed /\ op = "undo" ->
               [txn EXCEPT !.state = "undone"]
          [] OTHER -> NoTxn

\* history "effect" after a call from outside: an updateItem that returned
\* normally or changed the item, or a clear() of a model with items, made while no transaction
\* is open, is recorded with the items before and after it (stage "done");
\* an undo() that follows at once makes it "undone", a redo() after that
\* "redone"; every other call forgets it
EffectAfter(op, ret, m2) ==
    CASE /\ ~transaction_active
         /\ \/ op = "updateItem" /\ (ret = "ok" \/ m2.items # items)
            \/ op = "clear" /\ items # <<>> ->
           [op |-> op, ret |-> ret, items |-> items, after |-> m2.items, stage |-> "done"]
      [] op = "undo" /\ before.op \in {"updateItem", "clear"} /\ before.stage = "done" ->
           [before EXCEPT !.stage = "undone"]
      [] op = "redo" /\ before.op \in {"updateItem", "clear"} /\ before.stage = "undone" ->
           [before EXCEPT !.stage = "redone"]
      [] OTHER -> NoBefore

\* history "pair" after a call from outside: the second call of an undo/redo
\* (redo/undo) pair keeps the state recorded before the first
TrackPair(op, ret, m2) ==
    LET other == IF op = "undo" THEN "redo" ELSE "undo"
    IN  IF track = "effect" THEN before' = EffectAfter(op, ret, m2)
        ELSE IF track # "pair" THEN UNCHANGED before
        ELSE before' =
            IF op \notin {"undo", "redo"} THEN NoBefore
            ELSE IF /\ last.op = other /\ last.ret = "true"
                    /\ before.op = other /\ ~before.second
                 THEN [before EXCEPT !.second = TRUE]
                 ELSE [op |-> op, items |-> items, undo_stack |-> undo_stack,
                       redo_stack |-> redo_stack, second |-> FALSE]

\* a call from outside, run to its return
Call(op, r) ==
    /\ pc = "idle"
    /\ calls < MaxCalls
    /\ calls' = calls + 1
    /\ Becomes(r.m)
    /\ last' = Returned(op, r.ret)
    /\ TrackBase(op, r.ret, r.m)
    /\ TrackTxn(op, r.ret, r.m)
    /\ TrackPair(op, r.ret, r.m)
    /\ UNCHANGED <<pc, frame, track, rvars, ovars>>

\* ------------------------------------------------------------------ actions
AddItem(item_data) == Call("addItem", addItem(Start, item_data))
RemoveItem(index) == Call("removeItem", removeItem(Start, index))
UpdateItem(index, properties) ==
    Call("updateItem", updateItem(Start, index, properties))
Clear == Call("clear", clear(Start))
BeginTransaction ==
    Call("beginTransaction", [m |-> beginTransaction(Start), ret |-> "none"])
EndTransaction ==
    Call("endTransaction", [m |-> endTransaction(Start), ret |-> "none"])
Undo == Call("undo", undo(Start))
Redo == Call("redo", redo(Start))

\* --------------------------------- undo() and redo() with handlers that call
\* the model again while the replay runs

\* the command is popped and the flag set; the body runs to its first
\* notification, or raises and runs the finally block
ReplayBegin(op, m0, command) ==
    /\ IF command.action = "transaction"
       THEN LET r == ReplayEntry(m0, Head(command.changes))
            IN  IF r.exc
                THEN /\ Becomes(ReplayFinally(op, m0))
                     /\ pc' = "finally"
                     /\ frame' = [NoFrame EXCEPT !.op = op, !.exc = TRUE]
                ELSE /\ Becomes(r.m)
                     /\ pc' = "loop"
                     /\ frame' = [NoFrame EXCEPT !.op = op,
                                                 !.todo = Tail(command.changes),
                                                 !.done = <<r.rec>>]
       ELSE LET r == ReplayCommand(op, m0, command)
            IN  IF r.exc
                THEN /\ Becomes(ReplayFinally(op, m0))
                     /\ pc' = "finally"
                     /\ frame' = [NoFrame EXCEPT !.op = op, !.exc = TRUE]
                ELSE /\ Becomes(r.m)
                     /\ pc' = "body"
                     /\ frame' = [NoFrame EXCEPT !.op = op]
    /\ UNCHANGED last

\* nothing to replay: return False
ReplayNothing(op) ==
    /\ Becomes(Start)
    /\ last' = Returned(op, "false")
    /\ UNCHANGED <<pc, frame>>

UndoBegin ==
    /\ pc = "idle"
    /\ calls < MaxCalls
    /\ IF undo_stack = <<>>
       THEN ReplayNothing("undo")
       ELSE ReplayBegin("undo",
                        [Start EXCEPT !.undo_stack = Front(@), !.undoing = TRUE],
                        Last(undo_stack))
    /\ calls' = calls + 1
    /\ UNCHANGED <<hvars, rvars, ovars>>

RedoBegin ==
    /\ pc = "idle"
    /\ calls < MaxCalls
    /\ IF redo_stack = <<>>
       THEN ReplayNothing("redo")
       ELSE ReplayBegin("redo",
                        [Start EXCEPT !.redo_stack = Front(@), !.redoing = TRUE],
                        Last(redo_stack))
    /\ calls' = calls + 1
    /\ UNCHANGED <<hvars, rvars, ovars>>

\* the loop of the "transaction" branch goes on: the next entry, or after the
\* last one the push of the inverse transaction
ReplayStep ==
    /\ pc = "loop"
    /\ IF frame.todo = <<>>
       THEN /\ Becomes(ReplayPush(frame.op, Self, CmdTransaction(frame.done)))
            /\ pc' = "body"
            /\ frame' = frame
       ELSE LET r == ReplayEntry(Self, Head(frame.todo))
            IN  IF r.exc
                THEN /\ Becomes(ReplayFinally(frame.op, Self))
                     /\ pc' = "finally"
                     /\ frame' = [frame EXCEPT !.exc = TRUE]
                ELSE /\ Becomes(r.m)
                     /\ pc' = "loop"
                     /\ frame' = [frame EXCEPT !.todo = Tail(@),
                                               !.done = Append(@, r.rec)]
    /\ UNCHANGED <<calls, last, hvars, rvars, ovars>>

\* the body is done: the finally block
ReplayEnd ==
    /\ pc = "body"
    /\ Becomes(ReplayFinally(frame.op, Self))
    /\ pc' = "finally"
    /\ UNCHANGED <<calls, frame, last, hvars, rvars, ovars>>

\* undo()/redo() returns True, or the exception leaves it
ReplayReturn ==
    /\ pc = "finally"
    /\ pc' = "idle"
    /\ frame' = NoFrame
    /\ last' = Returned(frame.op, IF frame.exc THEN "raised" ELSE "true")
    /\ UNCHANGED <<mvars, calls, hvars, rvars, ovars>>

\* A handler of a notification sent by the running undo()/redo() calls the
\* model again.
Handler(op, r) ==
    /\ pc # "idle"
    /\ frame.reent < MaxReentrant
    /\ Becomes(r.m)
    /\ frame' = [frame EXCEPT !.reent = @ + 1]
    /\ last' = [op |-> op, ret |-> r.ret, nested |-> TRUE, phase |-> pc]
    /\ UNCHANGED <<calls, pc, hvars, rvars, ovars>>

HandlerAddItem(item_data) == Handler("addItem", addItem(Self, item_data))
HandlerRemoveItem(index) == Handler("removeItem", removeItem(Self, index))
HandlerUpdateItem(index, properties) ==
    Handler("updateItem", updateItem(Self, index, properties))
HandlerClear == Handler("clear", clear(Self))

\* ---------------------------------------------------------------- renderer
ShapeClasses == {"RectangleItem", "EllipseItem", "PathItem", "TextItem"}
OrganizationalClasses == {"LayerItem", "GroupItem"}
ItemClasses == ShapeClasses \cup OrganizationalClasses

\* a renderer that leaves out the items that are not visible
IsRenderedWhenVisible(item) ==
    item.cls \in {"RectangleItem", "EllipseItem"} /\ item.visible

\* isinstance(item, (RectangleItem, EllipseItem))
IsRendered(item) == item.cls \in {"RectangleItem", "EllipseItem"}

\* for item in reversed(items): if isinstance(...): result.append(item)
RECURSIVE get_render_order(_)
get_render_order(its) ==
    IF its = <<>> THEN <<>>
    ELSE LET item == its[Len(its)]
             rest == get_render_order(SubSeq(its, 1, Len(its) - 1))
         IN  IF IsRendered(item) THEN <<item>> \o rest ELSE rest

\* the item sequences of the renderer's model: item k is named by its index
RenderInputs ==
    UNION {[1..n -> ItemClasses] : n \in 0..MaxRenderItems}

RenderItems(cs) == [k \in 1..Len(cs) |-> [cls |-> cs[k], name |-> k - 1]]

GetRenderOrder ==
    /\ rpc = "model"
    /\ rOrder' = get_render_order(rItems)
    /\ rpc' = "ordered"
    /\ UNCHANGED <<mvars, calls, pc, frame, last, hvars, rItems, ovars>>

\* the items of the renderer's model with the flags the layer panel sets
FlaggedInputs ==
    UNION {[1..n -> {"LayerItem", "RectangleItem", "EllipseItem"}] :
               n \in 0..MaxFlaggedItems}

FlaggedItems(cs) ==
    [k \in 1..Len(cs) |->
        [cls |-> cs[k], name |-> k - 1, visible |-> TRUE, locked |-> FALSE,
         parent_id |-> None]]

\* a flag of the item at index changes; the itemModified signal makes the
\* renderer paint again, which computes the render order anew
SetFlag(index, field, value) ==
    /\ rpc = "ordered"
    /\ rItems[index + 1][field] # value
    /\ (field = "parent_id" => rItems[index + 1].cls # "LayerItem")
    /\ rItems' = [rItems EXCEPT ![index + 1][field] = value]
    /\ rOrder' = get_render_order(rItems')
    /\ UNCHANGED <<mvars, calls, pc, frame, last, hvars, rpc, ovars>>

SetVisible(index, value) == SetFlag(index, "visible", value)
SetLocked(index, value) == SetFlag(index, "locked", value)
SetParent(index, value) == SetFlag(index, "parent_id", value)

NextFlags ==
    \/ GetRenderOrder
    \/ \E index \in 0..(Len(rItems) - 1), value \in BOOLEAN : SetVisible(index, value)
    \/ \E index \in 0..(Len(rItems) - 1), value \in BOOLEAN : SetLocked(index, value)
    \/ \E index \in 0..(Len(rItems) - 1), value \in {None, Str("layer-1")} :
           SetParent(index, value)

\* ------------------------------------------- the items of package lucent
\* Numbers are floats of integral value, held as integers; opacities count
\* tenths.  A parent id or an id is Str(s) or None.

\* Fill(color, opacity, visible) and Stroke(color, width, opacity, visible)
Fill(color, opacity, visible) ==
    [type |-> "fill", color |-> color, opacity |-> opacity, visible |-> visible]
Stroke(color, width, opacity, visible) ==
    [type |-> "stroke", color |-> color, width |-> width, opacity |-> opacity,
     visible |-> visible]

Transform(translate_x, rotate, scale_x) ==
    [translate_x |-> translate_x, translate_y |-> 0, rotate |-> rotate,
     scale_x |-> scale_x, scale_y |-> 1, pivot_x |-> 0, pivot_y |-> 0]
is_identity(t) ==
    /\ t.translate_x = 0 /\ t.translate_y = 0 /\ t.rotate = 0
    /\ t.scale_x = 1 /\ t.scale_y = 1

RectGeometry(x, y, width, height) ==
    [kind |-> "rect", x |-> x, y |-> y, width |-> Max(0, width),
     height |-> Max(0, height)]
EllipseGeometry(center_x, center_y, radius_x, radius_y) ==
    [kind |-> "ellipse", center_x |-> center_x, center_y |-> center_y,
     radius_x |-> Max(0, radius_x), radius_y |-> Max(0, radius_y)]
\* points: at least two; each keeps x, y and the handles it has
PathGeometry(points, closed) == [kind |-> "path", points |-> points, closed |-> closed]

\* ShapeItem.__init__ through the constructor of the subclass cls
ShapeItem(cls, geometry, appearances, transform, name, parent_id, visible, locked) ==
    [cls |-> cls, geometry |-> geometry, appearances |-> appearances,
     transform |-> transform, name |-> name, parent_id |-> parent_id,
     visible |-> visible, locked |-> locked]

\* a test that takes only None for false
TruthyUnlessNone(v) == v.kind # "none"

\* bool(v) of an id: None and the empty string are false
Truthy(v) == v.kind # "none" /\ ~(v.kind = "str" /\ v.str = "")

\* uuid: the value str(uuid.uuid4()) yields when no id is given
LayerItem(name, layer_id, visible, locked, uuid) ==
    [cls |-> "LayerItem", name |-> name, visible |-> visible, locked |-> locked,
     id |-> IF Truthy(layer_id) THEN layer_id ELSE uuid]
GroupItem(name, group_id, parent_id, visible, locked, uuid) ==
    [cls |-> "GroupItem", name |-> name, visible |-> visible, locked |-> locked,
     parent_id |-> parent_id, id |-> IF Truthy(group_id) THEN group_id ELSE uuid]

TextItem(x, y, text, font_family, font_size, text_color, text_opacity, width, height, name, parent_id, visible, locked) ==
    [cls |-> "TextItem", name |-> name, parent_id |-> parent_id,
     visible |-> visible, locked |-> locked, x |-> x, y |-> y, text |-> text,
     font_family |-> font_family, font_size |-> Max(8, Min(200, font_size)),
     text_color |-> text_color, text_opacity |-> Max(0, Min(10, text_opacity)),
     width |-> Max(1, width), height |-> Max(0, height)]

ShapeItemClasses == {"RectangleItem", "EllipseItem", "PathItem"}

MinOf(S) == CHOOSE m \in S : \A n \in S : m <= n
MaxOf(S) == CHOOSE m \in S : \A n \in S : m >= n

\* Geometry.get_bounds(): QRectF(x, y, width, height); of a path without
\* handles, the box around its points
get_bounds(geometry) ==
    CASE geometry.kind = "rect" ->
           [x |-> geometry.x, y |-> geometry.y, width |-> geometry.width,
            height |-> geometry.height]
      [] geometry.kind = "ellipse" ->
           [x |-> geometry.center_x - geometry.radius_x,
            y |-> geometry.center_y - geometry.radius_y,
            width |-> 2 * geometry.radius_x, height |-> 2 * geometry.radius_y]
      [] geometry.kind = "path" ->
           LET xs == {geometry.points[k].x : k \in 1..Len(geometry.points)}
               ys == {geometry.points[k].y : k \in 1..Len(geometry.points)}
           IN  [x |-> MinOf(xs), y |-> MinOf(ys), width |-> MaxOf(xs) - MinOf(xs),
                height |-> MaxOf(ys) - MinOf(ys)]

\* QRectF.isEmpty()
isEmpty(bounds) == bounds.width <= 0 \/ bounds.height <= 0

\* getattr(item, attr) exists: geometry is a field of a ShapeItem, fill and
\* stroke are properties of ShapeItem
hasattr(item, attr) ==
    IF attr \in {"fill", "stroke"} THEN item.cls \in ShapeItemClasses
    ELSE attr \in DOMAIN item

\* ShapeItem.fill / ShapeItem.stroke: the first appearance of the type, or
\* None (found FALSE)
FirstOf(item, type) ==
    LET ks == {k \in 1..Len(item.appearances) : item.appearances[k].type = type}
    IN  IF ks = {} THEN [found |-> FALSE, app |-> <<>>]
        ELSE [found |-> TRUE, app |-> item.appearances[MinOf(ks)]]

\* what item.paint(painter, ...) draws into the image
paint(item) ==
    IF item.cls = "TextItem"
    THEN IF item.text = "" THEN [drawn |-> FALSE]
         ELSE [drawn |-> TRUE, x |-> item.x, y |-> item.y, text |-> item.text,
               font_family |-> item.font_family, font_size |-> item.font_size,
               text_color |-> item.text_color, text_opacity |-> item.text_opacity,
               width |-> item.width]
    ELSE IF ~item.visible THEN [drawn |-> FALSE]
    ELSE [drawn |-> TRUE, path |-> item.geometry,
          mapped_by |-> IF is_identity(item.transform) THEN <<>> ELSE item.transform,
          appearances |-> item.appearances]

\* ----------------------------------------------------------- texture cache
PADDING == 4
RENDER_SCALE == 2

\* hash() of a float of integral value: the value, but -2 for -1
PyHash(n) == IF n = -1 THEN -2 ELSE n

\* a version that also hashes the transform
get_item_version_with_transform(item) ==
    LET bounds == get_bounds(item.geometry)
        fill == FirstOf(item, "fill")
        stroke == FirstOf(item, "stroke")
    IN  [geometry |-> <<PyHash(bounds.x), PyHash(bounds.y), PyHash(bounds.width),
                        PyHash(bounds.height), item.transform>>,
         fill |-> IF hasattr(item, "fill") /\ fill.found
                  THEN <<fill.app.color>> ELSE <<>>,
         stroke |-> IF hasattr(item, "stroke") /\ stroke.found
                    THEN <<stroke.app.color, PyHash(stroke.app.width)>> ELSE <<>>]

\* _get_item_version: the three hashes that are xor-ed, kept apart (no two
\* different triples are taken to collide); 0 stands for a part not hashed
get_item_version(item) ==
    LET bounds == get_bounds(item.geometry)
        fill == FirstOf(item, "fill")
        stroke == FirstOf(item, "stroke")
    IN  [geometry |-> IF hasattr(item, "geometry")
                      THEN <<PyHash(bounds.x), PyHash(bounds.y), PyHash(bounds.width),
                             PyHash(bounds.height)>>
                      ELSE <<>>,
         fill |-> IF hasattr(item, "fill") /\ fill.found
                  THEN <<fill.app.color>> ELSE <<>>,
         stroke |-> IF hasattr(item, "stroke") /\ stroke.found
                    THEN <<stroke.app.color, PyHash(stroke.app.width)>> ELSE <<>>]

\* isinstance(item, (ShapeItem, TextItem))
CanBeTextured(item) == item.cls \in ShapeItemClasses \cup {"TextItem"}

\* TextureCacheEntry; serial tells the entry objects apart, slot is the held
\* object the image was painted from
TextureCacheEntry(image, bounds, item_version, serial, slot) ==
    [image |-> image, bounds |-> bounds, item_version |-> item_version,
     serial |-> serial, slot |-> slot]

NoEntry == [serial |-> 0]

\* _rasterize_item: kind is "entry", "none" (None returned) or "raised"
\* (item.geometry of an item without that attribute: AttributeError)
rasterize_item(item, version, serial, slot) ==
    IF ~CanBeTextured(item) THEN [kind |-> "none", entry |-> NoEntry]
    ELSE IF ~hasattr(item, "geometry") THEN [kind |-> "raised", entry |-> NoEntry]
    ELSE LET bounds == get_bounds(item.geometry)
             tex_width == Max((bounds.width + PADDING * 2) * RENDER_SCALE, 4)
             tex_height == Max((bounds.height + PADDING * 2) * RENDER_SCALE, 4)
             image == [width |-> tex_width, height |-> tex_height,
                       translate |-> <<PADDING - bounds.x, PADDING - bounds.y>>,
                       painted |-> paint(item)]
         IN  IF isEmpty(bounds) THEN [kind |-> "none", entry |-> NoEntry]
             ELSE [kind |-> "entry",
                   entry |-> TextureCacheEntry(image, bounds, version, serial, slot)]

\* d[key] = value of a dict
Put(d, key, value) ==
    [k \in DOMAIN d \cup {key} |-> IF k = key THEN value ELSE d[k]]
\* d.pop(key, None)
Pop(d, key) == [k \in DOMAIN d \ {key} |-> d[k]]

\* get_or_create(item, item_id) on the cache tc = [cache, item_versions];
\* serial is the identity a new entry object gets
get_or_create(tc, item, item_id, serial, slot) ==
    IF ~CanBeTextured(item)
    THEN [tc |-> tc, kind |-> "none", entry |-> NoEntry, rasterized |-> FALSE]
    ELSE LET current_version ==
                 IF hasattr(item, "geometry") THEN get_item_version(item)
                 ELSE [geometry |-> <<>>, fill |-> <<>>, stroke |-> <<>>]
             r == rasterize_item(item, current_version, serial, slot)
         IN  IF /\ item_id \in DOMAIN tc.cache
                /\ tc.cache[item_id].item_version = current_version
             THEN [tc |-> tc, kind |-> "entry", entry |-> tc.cache[item_id],
                   rasterized |-> FALSE]
             ELSE IF r.kind = "entry"
             THEN [tc |-> [cache |-> Put(tc.cache, item_id, r.entry),
                           item_versions |-> Put(tc.item_versions, item_id,
                                                 current_version)],
                   kind |-> "entry", entry |-> r.entry, rasterized |-> TRUE]
             ELSE [tc |-> tc, kind |-> r.kind, entry |-> NoEntry,
                   rasterized |-> FALSE]

\* an invalidate that forgets the version and keeps the entry
invalidate_version_only(tc, item_id) ==
    [cache |-> tc.cache, item_versions |-> Pop(tc.item_versions, item_id)]

\* TextureCache.invalidate
invalidate(tc, item_id) ==
    [cache |-> Pop(tc.cache, item_id), item_versions |-> Pop(tc.item_versions, item_id)]

\* The objects a caller of the cache holds.  The rectangle and the ellipse
\* have the same bounds, fill colour and stroke.
BlackStroke == Stroke("black", 1, 10, TRUE)
IdentityTransform == Transform(0, 0, 1)
HeldRectangle ==
    ShapeItem("RectangleItem", RectGeometry(0, 0, 10, 10),
              <<Fill("red", 10, TRUE), BlackStroke>>, IdentityTransform, "",
              None, TRUE, FALSE)
HeldEllipse ==
    ShapeItem("EllipseItem", EllipseGeometry(5, 5, 5, 5),
              <<Fill("red", 10, TRUE), BlackStroke>>, IdentityTransform, "",
              None, TRUE, FALSE)
HeldPath ==
    ShapeItem("PathItem",
              PathGeometry(<<[x |-> 0, y |-> 0], [x |-> 5, y |-> 10],
                             [x |-> 10, y |-> 0]>>, FALSE),
              <<BlackStroke>>, IdentityTransform, "", None, TRUE, FALSE)
HeldText ==
    TextItem(0, 0, "hi", "Sans Serif", 16, "#ffffff", 10, 100, 0, "", None,
             TRUE, FALSE)
HeldLayer == LayerItem("Layer", Str("layer-1"), TRUE, FALSE, Str("uuid-1"))
HeldGroup == GroupItem("Group", Str("group-1"), None, TRUE, FALSE, Str("uuid-2"))
HeldItems ==
    <<HeldRectangle, HeldEllipse, HeldPath, HeldText, HeldLayer, HeldGroup>>

Keys == {"a", "b"}
NoCall == [slot |-> 0]

\* --- the caller's assignments to the fields of a held shape
\* item.geometry = a geometry of another width (0: empty bounds)
Resized(item, w) ==
    IF item.geometry.kind = "rect"
    THEN [item EXCEPT !.geometry =
              RectGeometry(item.geometry.x, item.geometry.y, w, item.geometry.height)]
    ELSE [item EXCEPT !.geometry =
              EllipseGeometry(item.geometry.center_x, item.geometry.center_y,
                              w \div 2, item.geometry.radius_y)]
\* item.geometry = a path whose middle point moved inside the same bounds
Reshaped(item) ==
    [item EXCEPT !.geometry =
         PathGeometry([item.geometry.points EXCEPT ![2] =
                           [x |-> IF @.x = 5 THEN 2 ELSE 5, y |-> @.y]],
                      item.geometry.closed)]
\* item.appearances[k] = the same appearance with another opacity
Faded(item, o) ==
    [item EXCEPT !.appearances = [k \in 1..Len(@) |->
         IF k = 1 THEN [@[k] EXCEPT !.opacity = o] ELSE @[k]]]
\* item.appearances[k] = the same appearance with another colour
Recoloured(item, c) ==
    [item EXCEPT !.appearances = [k \in 1..Len(@) |->
         IF k = 1 THEN [@[k] EXCEPT !.color = c] ELSE @[k]]]
\* item.transform = a rotation
Rotated(item, r) == [item EXCEPT !.transform = Transform(0, r, 1)]

Widths == {0, 20}

\* ------------------------------------------------------------ item schema
\* A dict is a record; a key is present when it is in its DOMAIN.  The values
\* arriving here are floats, strings and bools already, on which float(),
\* str() and bool() change nothing.

\* str(type_value).lower(), on the spellings used
Lower(s) ==
    CASE s = "Rectangle" -> "rectangle"
      [] s = "LAYER" -> "layer"
      [] OTHER -> s

ItemType == {"rectangle", "ellipse", "layer", "group", "path", "text"}

clamp_min(value, minimum) == IF value >= minimum THEN value ELSE minimum
clamp_range(value, minimum, maximum) ==
    IF value < minimum THEN minimum
    ELSE IF value > maximum THEN maximum
    ELSE value

\* v or None
OrNone(v) == IF Truthy(v) THEN v ELSE None

\* Fill.to_dict / Stroke.to_dict: the type tag and the fields of the appearance
Appearance_to_dict(a) == a

\* the appearances after the first k - 1, parsed; other types are skipped
RECURSIVE ParseAppearancesFrom(_, _)
ParseAppearancesFrom(appearances, k) ==
    IF k > Len(appearances) THEN <<>>
    ELSE LET a == appearances[k]
             app_type == Get(a, "type", "")
             rest == ParseAppearancesFrom(appearances, k + 1)
         IN  IF app_type = "fill"
             THEN <<[type |-> "fill", color |-> Get(a, "color", "#ffffff"),
                     opacity |-> clamp_range(Get(a, "opacity", 0), 0, 10),
                     visible |-> Get(a, "visible", TRUE)]>> \o rest
             ELSE IF app_type = "stroke"
             THEN <<[type |-> "stroke", color |-> Get(a, "color", "#ffffff"),
                     width |-> clamp_range(Get(a, "width", 1), 0, 100),
                     opacity |-> clamp_range(Get(a, "opacity", 10), 0, 10),
                     visible |-> Get(a, "visible", TRUE)]>> \o rest
             ELSE rest

parse_appearances(data) ==
    LET appearances == Get(data, "appearances", <<>>)
    IN  IF appearances = <<>>
        THEN <<[type |-> "fill", color |-> "#ffffff", opacity |-> 0, visible |-> TRUE],
               [type |-> "stroke", color |-> "#ffffff", width |-> 1, opacity |-> 10,
                visible |-> TRUE]>>
        ELSE ParseAppearancesFrom(appearances, 1)

\* name, parentId, visible and locked of a validated dict
ValidatedCommon(data) ==
    [name |-> Get(data, "name", ""),
     parentId |-> OrNone(Get(data, "parentId", None)),
     visible |-> Get(data, "visible", TRUE),
     locked |-> Get(data, "locked", FALSE)]

validate_rectangle(data) ==
    LET geom == Get(data, "geometry", <<>>)
        c == ValidatedCommon(data)
    IN  [type |-> "rectangle", name |-> c.name, parentId |-> c.parentId,
         visible |-> c.visible, locked |-> c.locked,
         geometry |-> [x |-> Get(geom, "x", 0), y |-> Get(geom, "y", 0),
                       width |-> clamp_min(Get(geom, "width", 0), 0),
                       height |-> clamp_min(Get(geom, "height", 0), 0)],
         appearances |-> parse_appearances(data)]

validate_ellipse(data) ==
    LET geom == Get(data, "geometry", <<>>)
        c == ValidatedCommon(data)
    IN  [type |-> "ellipse", name |-> c.name, parentId |-> c.parentId,
         visible |-> c.visible, locked |-> c.locked,
         geometry |-> [centerX |-> Get(geom, "centerX", 0),
                       centerY |-> Get(geom, "centerY", 0),
                       radiusX |-> clamp_min(Get(geom, "radiusX", 0), 0),
                       radiusY |-> clamp_min(Get(geom, "radiusY", 0), 0)],
         appearances |-> parse_appearances(data)]

\* fewer than two points: ItemSchemaError (ok FALSE)
validate_path(data) ==
    LET geom == Get(data, "geometry", <<>>)
        points_raw == Get(geom, "points", <<>>)
        c == ValidatedCommon(data)
    IN  IF Len(points_raw) < 2 THEN [ok |-> FALSE]
        ELSE [ok |-> TRUE, type |-> "path", name |-> c.name, parentId |-> c.parentId,
              visible |-> c.visible, locked |-> c.locked,
              geometry |->
                  [points |-> [k \in 1..Len(points_raw) |->
                                   [x |-> Get(points_raw[k], "x", 0),
                                    y |-> Get(points_raw[k], "y", 0)]],
                   closed |-> Get(geom, "closed", FALSE)],
              appearances |-> parse_appearances(data)]

validate_layer(data) ==
    [type |-> "layer", id |-> OrNone(Get(data, "id", None)),
     name |-> Get(data, "name", ""), visible |-> Get(data, "visible", TRUE),
     locked |-> Get(data, "locked", FALSE)]

validate_group(data) ==
    [type |-> "group", id |-> OrNone(Get(data, "id", None)),
     name |-> Get(data, "name", ""),
     parentId |-> OrNone(Get(data, "parentId", None)),
     visible |-> Get(data, "visible", TRUE), locked |-> Get(data, "locked", FALSE)]

validate_text(data) ==
    LET c == ValidatedCommon(data)
    IN  [type |-> "text", name |-> c.name, parentId |-> c.parentId,
         visible |-> c.visible, locked |-> c.locked,
         x |-> Get(data, "x", 0), y |-> Get(data, "y", 0),
         width |-> clamp_min(Get(data, "width", 100), 1),
         height |-> clamp_min(Get(data, "height", 0), 0),
         text |-> Get(data, "text", ""),
         fontFamily |-> Get(data, "fontFamily", "Sans Serif"),
         fontSize |-> clamp_range(Get(data, "fontSize", 16), 8, 200),
         textColor |-> Get(data, "textColor", "#ffffff"),
         textOpacity |-> clamp_range(Get(data, "textOpacity", 10), 0, 10)]

\* parse_item_data: ok FALSE stands for ItemSchemaError; otherwise the
\* ParsedItem(type, name, data)
parse_item_data(data) ==
    LET item_type == Lower(Get(data, "type", ""))
        validated ==
            CASE item_type = "rectangle" -> validate_rectangle(data)
              [] item_type = "ellipse" -> validate_ellipse(data)
              [] item_type = "layer" -> validate_layer(data)
              [] item_type = "group" -> validate_group(data)
              [] item_type = "path" -> validate_path(data)
              [] item_type = "text" -> validate_text(data)
    IN  IF item_type \notin ItemType THEN [ok |-> FALSE]
        ELSE IF item_type = "path" /\ ~validated.ok THEN [ok |-> FALSE]
        ELSE [ok |-> TRUE, type |-> item_type, name |-> Get(validated, "name", ""),
              data |-> validated]

\* the Fill and Stroke objects built from the validated appearances
BuildAppearances(apps) ==
    [k \in 1..Len(apps) |->
        IF apps[k].type = "fill"
        THEN Fill(apps[k].color, apps[k].opacity, apps[k].visible)
        ELSE Stroke(apps[k].color, apps[k].width, apps[k].opacity, apps[k].visible)]

\* Transform(): what a shape built without a transform gets
DefaultTransform == Transform(0, 0, 1)

\* parse_item: ok FALSE stands for ItemSchemaError; uuid is the id a layer or
\* group without one would be given
parse_item(data, uuid) ==
    LET t == Lower(Get(data, "type", ""))
    IN  IF t \notin ItemType THEN [ok |-> FALSE]
        ELSE CASE t = "rectangle" ->
               LET d == validate_rectangle(data)
               IN  [ok |-> TRUE,
                    item |-> ShapeItem("RectangleItem",
                                 RectGeometry(d.geometry.x, d.geometry.y,
                                              d.geometry.width, d.geometry.height),
                                 BuildAppearances(d.appearances), DefaultTransform,
                                 d.name, d.parentId, d.visible, d.locked)]
          [] t = "ellipse" ->
               LET d == validate_ellipse(data)
               IN  [ok |-> TRUE,
                    item |-> ShapeItem("EllipseItem",
                                 EllipseGeometry(d.geometry.centerX, d.geometry.centerY,
                                                 d.geometry.radiusX, d.geometry.radiusY),
                                 BuildAppearances(d.appearances), DefaultTransform,
                                 d.name, d.parentId, d.visible, d.locked)]
          [] t = "path" ->
               LET d == validate_path(data)
               IN  IF ~d.ok THEN [ok |-> FALSE]
                   ELSE [ok |-> TRUE,
                         item |-> ShapeItem("PathItem",
                                      PathGeometry(d.geometry.points, d.geometry.closed),
                                      BuildAppearances(d.appearances), DefaultTransform,
                                      d.name, d.parentId, d.visible, d.locked)]
          [] t = "layer" ->
               LET d == validate_layer(data)
               IN  [ok |-> TRUE,
                    item |-> LayerItem(d.name, d.id, d.visible, d.locked, uuid)]
          [] t = "group" ->
               LET d == validate_group(data)
               IN  [ok |-> TRUE,
                    item |-> GroupItem(d.name, d.id, d.parentId, d.visible, d.locked,
                                       uuid)]
          [] t = "text" ->
               LET d == validate_text(data)
               IN  [ok |-> TRUE,
                    item |-> TextItem(d.x, d.y, d.text, d.fontFamily, d.fontSize,
                                      d.textColor, d.textOpacity, d.width, d.height,
                                      d.name, d.parentId, d.visible, d.locked)]

\* Geometry.to_dict
Geometry_to_dict(geometry) ==
    CASE geometry.kind = "rect" ->
           [x |-> geometry.x, y |-> geometry.y, width |-> geometry.width,
            height |-> geometry.height]
      [] geometry.kind = "ellipse" ->
           [centerX |-> geometry.center_x, centerY |-> geometry.center_y,
            radiusX |-> geometry.radius_x, radiusY |-> geometry.radius_y]
      [] geometry.kind = "path" ->
           [points |-> geometry.points, closed |-> geometry.closed]

item_to_dict(item) ==
    CASE item.cls \in ShapeItemClasses ->
           [type |-> CASE item.cls = "RectangleItem" -> "rectangle"
                       [] item.cls = "EllipseItem" -> "ellipse"
                       [] item.cls = "PathItem" -> "path",
            name |-> item.name, parentId |-> item.parent_id,
            visible |-> item.visible, locked |-> item.locked,
            geometry |-> Geometry_to_dict(item.geometry),
            appearances |-> [k \in 1..Len(item.appearances) |->
                                 Appearance_to_dict(item.appearances[k])]]
      [] item.cls = "LayerItem" ->
           [type |-> "layer", id |-> item.id, name |-> item.name,
            visible |-> item.visible, locked |-> item.locked]
      [] item.cls = "GroupItem" ->
           [type |-> "group", id |-> item.id, name |-> item.name,
            parentId |-> item.parent_id, visible |-> item.visible,
            locked |-> item.locked]
      [] item.cls = "TextItem" ->
           [type |-> "text", name |-> item.name, parentId |-> item.parent_id,
            visible |-> item.visible, locked |-> item.locked, x |-> item.x,
            y |-> item.y, width |-> item.width, height |-> item.height,
            text |-> item.text, fontFamily |-> item.font_family,
            fontSize |-> item.font_size, textColor |-> item.text_color,
            textOpacity |-> item.text_opacity]

\* --- the items that are serialized
Uuids == {Str("uuid-1"), Str("uuid-2")}
ParentIds == {None, Str("layer-1")}
AppearanceLists ==
    {<<Fill("red", 5, TRUE), Stroke("black", 2, 10, FALSE)>>,
     <<Stroke("black", 100, 0, TRUE)>>}
Transforms == {Transform(0, 0, 1), Transform(0, 45, 1), Transform(7, 0, 2)}
PointLists ==
    {<<[x |-> 0, y |-> 0], [x |-> 10, y |-> 10]>>,
     <<[x |-> 0, y |-> 0], [x |-> 5, y |-> 10], [x |-> 10, y |-> 0]>>,
     <<[x |-> 0, y |-> 0, handleOut |-> [x |-> 3, y |-> 0]],
       [x |-> 10, y |-> 10, handleIn |-> [x |-> 7, y |-> 10]]>>}
SchemaShapes ==
    {ShapeItem(c.cls, c.geometry, apps, tr, name, pid, vis, FALSE) :
        c \in {[cls |-> "RectangleItem", geometry |-> RectGeometry(1, 2, 10, 0)],
               [cls |-> "EllipseItem", geometry |-> EllipseGeometry(5, 5, 5, 3)]}
              \cup {[cls |-> "PathItem", geometry |-> PathGeometry(ps, cl)] :
                       ps \in PointLists, cl \in BOOLEAN},
        apps \in AppearanceLists, tr \in Transforms, name \in {"", "shape"},
        pid \in ParentIds, vis \in BOOLEAN}
SchemaOrganizational ==
    {LayerItem(name, id, vis, locked, uuid) :
        name \in {"", "Layer"}, id \in {None, Str("layer-1")}, vis \in BOOLEAN,
        locked \in BOOLEAN, uuid \in Uuids}
    \cup {GroupItem(name, id, pid, TRUE, locked, uuid) :
        name \in {"Group"}, id \in {Str(""), Str("group-1")}, pid \in ParentIds,
        locked \in BOOLEAN, uuid \in Uuids}
SchemaTexts ==
    {TextItem(3, 4, text, "Sans Serif", size, "#ffffff", op, w, h, "", pid, TRUE, locked) :
        text \in {"", "hi"}, size \in {4, 16}, op \in {5, 12}, w \in {0, 100},
        h \in {0, 20}, pid \in ParentIds, locked \in BOOLEAN}
SchemaItems == SchemaShapes \cup SchemaOrganizational \cup SchemaTexts

\* ------------------------------------------------------------ scene builder
\* The scene builder b = [needs_full_rebuild, zoom_level, tile_origin_x,
\* tile_origin_y]: needs_full_rebuild TRUE is the state needsFullRebuild,
\* FALSE is upToDate.

\* a handler that leaves the flag alone
MarkNothing(b) == b

\* the handler of itemAdded, itemRemoved, itemModified and itemsCleared
MarkFullRebuild(b) == [b EXCEPT !.needs_full_rebuild = TRUE]

\* the setters of zoomLevel, tileOriginX and tileOriginY: a new value is
\* stored and the graph marked; the value the property already has changes
\* nothing
SetProperty(b, field, value) ==
    IF b[field] # value THEN MarkFullRebuild([b EXCEPT ![field] = value]) ELSE b

\* the rebuild of the node graph
Rebuild(b) == [b EXCEPT !.needs_full_rebuild = FALSE]

ItemNotifications == {"itemAdded", "itemRemoved", "itemModified", "itemsCleared"}
ZoomLevels == {1, 2}
TileOrigins == {0, 100}

\* ------------------------------------------------------------------- paths
\* The points a caller passes are a Python value [py, elems]: py is the type
\* of the value ("list", "tuple", "str", "NoneType") and elems its elements.
\* A call yields [raised, obj]: the exception it raised ("none" when it
\* returned) and the object it returned.
Raised(exc) == [raised |-> exc, obj |-> <<>>]
Built(obj) == [raised |-> "none", obj |-> obj]

\* p.get(key) is not None
HasHandle(p, key) == key \in DOMAIN p /\ p[key] # None

\* the handles test of a mutated _has_handles: only the outgoing handle counts
has_handles_out_only(prev_point, curr_point) == HasHandle(prev_point, "handleOut")

\* PathGeometry._has_handles
has_handles(prev_point, curr_point) ==
    HasHandle(prev_point, "handleOut") \/ HasHandle(curr_point, "handleIn")

\* the dictionary the constructor keeps for one point
NormalizedPoint(p) ==
    LET h(key) == IF HasHandle(p, key)
                  THEN key :> [x |-> Get(p[key], "x", 0), y |-> Get(p[key], "y", 0)]
                  ELSE <<>>
    IN  [x |-> Get(p, "x", 0), y |-> Get(p, "y", 0)] @@ h("handleIn") @@ h("handleOut")

\* PathGeometry.__init__: len(points) of None is a TypeError, fewer than two
\* elements a ValueError, and an element without get() an AttributeError
PathGeometry_init(points, closed) ==
    IF points.py = "NoneType" THEN Raised("TypeError")
    ELSE IF Len(points.elems) < 2 THEN Raised("ValueError")
    ELSE IF points.py = "str" THEN Raised("AttributeError")
    ELSE Built(PathGeometry([k \in 1..Len(points.elems) |->
                                    NormalizedPoint(points.elems[k])], closed))

\* PathGeometry.from_dict
PathGeometry_from_dict(data) ==
    LET points == Get(data, "points", [py |-> "NoneType", elems |-> <<>>])
    IN  IF points.py # "list" THEN Raised("ValueError")
        ELSE IF Len(points.elems) < 2 THEN Raised("ValueError")
        ELSE PathGeometry_init(points, Get(data, "closed", FALSE))

\* parse_item on the dictionary of a path whose points are the Python value
\* points: validate_path takes `points or []`, rejects what is not a list,
\* and every exception of the validation leaves as an ItemSchemaError
parse_path_item(points, closed) ==
    LET points_raw == IF points.py = "NoneType" \/ Len(points.elems) = 0
                      THEN [py |-> "list", elems |-> <<>>] ELSE points
        r == parse_item([type |-> "path",
                         geometry |-> [points |-> points_raw.elems, closed |-> closed]],
                        None)
    IN  IF points_raw.py # "list" THEN Raised("ItemSchemaError")
        ELSE IF ~r.ok THEN Raised("ItemSchemaError")
        ELSE Built(r.item)

\* bool(p.get(key)) on a point of the geometry
HandleTruthy(p, key) == HasHandle(p, key) /\ DOMAIN p[key] # {}

\* PathGeometry._get_control_points
get_control_points(prev_point, curr_point) ==
    [cp1 |-> IF HandleTruthy(prev_point, "handleOut") THEN prev_point.handleOut
             ELSE [x |-> prev_point.x, y |-> prev_point.y],
     cp2 |-> IF HandleTruthy(curr_point, "handleIn") THEN curr_point.handleIn
             ELSE [x |-> curr_point.x, y |-> curr_point.y]]

\* the elements of a QPainterPath
MoveTo(x, y) == [op |-> "moveTo", x |-> x, y |-> y]
LineTo(x, y) == [op |-> "lineTo", x |-> x, y |-> y]
CubicTo(cp1, cp2, x, y) == [op |-> "cubicTo", cp1 |-> cp1, cp2 |-> cp2, x |-> x, y |-> y]

\* the element that draws the segment from prev_point to curr_point
SegmentTo(prev_point, curr_point) ==
    IF has_handles(prev_point, curr_point)
    THEN LET cp == get_control_points(prev_point, curr_point)
         IN  CubicTo(cp.cp1, cp.cp2, curr_point.x, curr_point.y)
    ELSE LineTo(curr_point.x, curr_point.y)

\* QPainterPath.closeSubpath: a line to the start of the subpath unless the
\* path is there already
closeSubpath(path) ==
    IF path[Len(path)].x = path[1].x /\ path[Len(path)].y = path[1].y THEN path
    ELSE Append(path, LineTo(path[1].x, path[1].y))

\* PathGeometry.to_painter_path
to_painter_path(geometry) ==
    LET points == geometry.points
        n == Len(points)
        open == <<MoveTo(points[1].x, points[1].y)>>
                    \o [i \in 1..(n - 1) |-> SegmentTo(points[i], points[i + 1])]
    IN  IF n = 0 THEN <<>>
        ELSE IF geometry.closed /\ n >= 2
        THEN closeSubpath(IF has_handles(points[n], points[1])
                          THEN Append(open, SegmentTo(points[n], points[1]))
                          ELSE open)
        ELSE open

\* ---------------------------------------------------------------- moveItem
\* the positions, in order, of the items that move with the item at position
\* k: the item itself and, when it is a layer, the items whose parent it is
MovedWith(its, k) ==
    {k} \cup {j \in 1..Len(its) :
                 /\ its[k].cls = "LayerItem"
                 /\ "parent_id" \in DOMAIN its[j]
                 /\ its[j].parent_id = its[k].id}

\* the items of its at the positions of set ps, in order
RECURSIVE Pick(_, _)
Pick(its, ps) ==
    IF its = <<>> THEN <<>>
    ELSE LET front == Pick(SubSeq(its, 1, Len(its) - 1), ps)
         IN  IF Len(its) \in ps THEN Append(front, its[Len(its)]) ELSE front

\* a moveItem that moves the item alone and leaves its children behind
moveItem_alone(its, from_index, to_index) ==
    IF ~ValidIndex([items |-> its], from_index) \/ ~ValidIndex([items |-> its], to_index)
    THEN [ok |-> FALSE, items |-> its]
    ELSE [ok |-> TRUE, items |-> InsertAt(DelAt(its, from_index), to_index, its[from_index + 1])]

\* moveItem(from, to): the item at from, with its children when it is a
\* layer, is taken out and put back so that the item is at index to; an
\* index out of range, or a to behind the end of what remains, is rejected
moveItem(its, from_index, to_index) ==
    IF ~ValidIndex([items |-> its], from_index) THEN [ok |-> FALSE, items |-> its]
    ELSE LET moved == MovedWith(its, from_index + 1)
             block == Pick(its, moved)
             others == Pick(its, (1..Len(its)) \ moved)
         IN  IF to_index < 0 \/ to_index > Len(others) THEN [ok |-> FALSE, items |-> its]
             ELSE [ok |-> TRUE,
                   items |-> SubSeq(others, 1, to_index) \o block
                                 \o SubSeq(others, to_index + 1, Len(others))]

\* -------------------------------------------------------------- transforms
\* A matrix is the affine part of a QMatrix4x4 that acts in the plane: the
\* point (x, y) is mapped to (m11 x + m12 y + dx, m21 x + m22 y + dy).
\* Rotations are whole multiples of 90 degrees, so that every entry is an
\* integer.
QMatrix4x4 == [m11 |-> 1, m12 |-> 0, m21 |-> 0, m22 |-> 1, dx |-> 0, dy |-> 0]

Cos(deg) == CASE deg % 360 = 0 -> 1 [] deg % 360 = 180 -> -1 [] OTHER -> 0
Sin(deg) == CASE deg % 360 = 90 -> 1 [] deg % 360 = 270 -> -1 [] OTHER -> 0

\* m.translate(x, y, 0), m.rotate(deg, 0, 0, 1), m.scale(sx, sy, 1): each
\* multiplies m from the right
translate(m, x, y) ==
    [m EXCEPT !.dx = m.dx + m.m11 * x + m.m12 * y, !.dy = m.dy + m.m21 * x + m.m22 * y]
rotate(m, deg) ==
    [m EXCEPT !.m11 = m.m11 * Cos(deg) + m.m12 * Sin(deg),
              !.m12 = m.m12 * Cos(deg) - m.m11 * Sin(deg),
              !.m21 = m.m21 * Cos(deg) + m.m22 * Sin(deg),
              !.m22 = m.m22 * Cos(deg) - m.m21 * Sin(deg)]
scale(m, sx, sy) ==
    [m EXCEPT !.m11 = m.m11 * sx, !.m12 = m.m12 * sy,
              !.m21 = m.m21 * sx, !.m22 = m.m22 * sy]

\* the matrix of to_qmatrix4x4, which takes no centre
to_qmatrix4x4_uncentered(t, center_x, center_y) ==
    scale(rotate(translate(QMatrix4x4, t.translate_x, t.translate_y), t.rotate),
          t.scale_x, t.scale_y)

\* Transform.to_qmatrix4x4_centered
to_qmatrix4x4_centered(t, center_x, center_y) ==
    IF is_identity(t) THEN QMatrix4x4
    ELSE LET m1 == translate(QMatrix4x4, t.translate_x, t.translate_y)
             m2 == translate(m1, center_x, center_y)
             m3 == rotate(m2, t.rotate)
             m4 == scale(m3, t.scale_x, t.scale_y)
         IN  translate(m4, -center_x, -center_y)

\* the point a matrix maps (x, y) to
map_point(m, x, y) ==
    [x |-> m.m11 * x + m.m12 * y + m.dx, y |-> m.m21 * x + m.m22 * y + m.dy]

\* ------------------------------------------------------------------ resize
\* A float is held as the fraction [n, d] in lowest terms with d > 0, so that
\* a division is carried out and not assumed to cancel.
RECURSIVE Gcd(_, _)
Gcd(a, b) == IF b = 0 THEN a ELSE Gcd(b, a % b)
Abs(n) == IF n < 0 THEN -n ELSE n

Rat(n, d) ==
    LET g == Gcd(Abs(n), Abs(d))
        sign == IF d < 0 THEN -1 ELSE 1
    IN  [n |-> sign * (n \div g), d |-> sign * (d \div g)]
RatAdd(a, b) == Rat(a.n * b.d + b.n * a.d, a.d * b.d)
RatSub(a, b) == Rat(a.n * b.d - b.n * a.d, a.d * b.d)
RatMul(a, b) == Rat(a.n * b.n, a.d * b.d)
RatDiv(a, b) == Rat(a.n * b.d, a.d * b.n)
RatLeq(a, b) == a.n * b.d <= b.n * a.d
RatMax(a, b) == IF RatLeq(a, b) THEN b ELSE a

\* a resize that does not clamp the displayed size
calculate_scale_unclamped(current_scale, geometry_size, delta, from_min_edge) ==
    IF RatLeq(geometry_size, Rat(0, 1)) THEN current_scale
    ELSE LET displayed_size == RatMul(geometry_size, current_scale)
         IN  RatDiv(IF from_min_edge THEN RatSub(displayed_size, delta)
                    ELSE RatAdd(displayed_size, delta), geometry_size)

calculate_scale_for_resize(current_scale, geometry_size, delta, from_min_edge) ==
    IF RatLeq(geometry_size, Rat(0, 1)) THEN current_scale
    ELSE LET displayed_size == RatMul(geometry_size, current_scale)
             new_displayed_size == IF from_min_edge THEN RatSub(displayed_size, delta)
                                   ELSE RatAdd(displayed_size, delta)
             min_displayed == Rat(1, 1)
         IN  RatDiv(RatMax(min_displayed, new_displayed_size), geometry_size)

\* Stroke rendering: the outline is drawn centred on the boundary path, half
\* of the width on either side.  The widest visible stroke gives the distance
\* the paint reaches outside the path; the value is twice that distance.
StrokeOutside(appearances) ==
    LET ws == {appearances[k].width : k \in {j \in 1..Len(appearances) : appearances[j].type = "stroke" /\ appearances[j].visible}}
    IN  IF ws = {} THEN 0 ELSE MaxOf(ws)

\* the box the painter covers on the image, in device pixels counted in
\* halves: painter.scale(scale, scale), painter.translate(...), item.paint
PaintedBox(image) ==
    LET b == get_bounds(image.painted.path)
        o == StrokeOutside(image.painted.appearances)
    IN  [left |-> (2 * (b.x + image.translate[1]) - o) * RENDER_SCALE,
         right |-> (2 * (b.x + b.width + image.translate[1]) + o) * RENDER_SCALE,
         top |-> (2 * (b.y + image.translate[2]) - o) * RENDER_SCALE,
         bottom |-> (2 * (b.y + b.height + image.translate[2]) + o) * RENDER_SCALE]

\* ------------------------------------------------------------ specifications
\* the model after construction
NewModel ==
    [items |-> <<>>, undo_stack |-> <<>>, redo_stack |-> <<>>, undoing |-> FALSE,
     redoing |-> FALSE, transaction_active |-> FALSE, transaction_snapshot |-> <<>>,
     signals |-> <<>>]

\* the model after the first calls of a session: nothing, one or two items added
OneItem == addItem(NewModel, RectInput).m
TwoItems == addItem(OneItem, EllipseInput).m
SessionModels == {[m EXCEPT !.signals = <<>>] : m \in {NewModel, OneItem, TwoItems}}

\* models with items and no history, as a handler that adds items during a
\* replay leaves them
NoHistoryModels ==
    {[NewModel EXCEPT !.items = its] :
        its \in {<<>>, OneItem.items, TwoItems.items,
                 <<TwoItems.items[2], updateItem(OneItem, 0, MoveProps).m.items[1]>>}}

\* m: the document model, its: the items of the model the renderer is given
ModelInit(m, its, objs, subj, input) ==
    /\ items = m.items
    /\ undo_stack = m.undo_stack
    /\ redo_stack = m.redo_stack
    /\ undoing = m.undoing
    /\ redoing = m.redoing
    /\ transaction_active = m.transaction_active
    /\ transaction_snapshot = m.transaction_snapshot
    /\ signals = m.signals
    /\ calls = 0
    /\ pc = "idle"
    /\ frame = NoFrame
    /\ last = Returned("init", "none")
    /\ base = m.items
    /\ clean = TRUE
    /\ edits = {}
    /\ before = NoBefore
    /\ txn = NoTxn
    /\ rItems = its
    /\ rOrder = <<>>
    /\ rpc = "model"
    /\ held = objs
    /\ cache = <<>>
    /\ item_versions = <<>>
    /\ rasters = 0
    /\ tcalls = 0
    /\ got = NoCall
    /\ seen = [k \in Keys |-> NoCall]
    /\ subject = subj
    /\ wire = <<>>
    /\ parsed = <<>>
    /\ spc = "item"
    /\ builder = [needs_full_rebuild |-> TRUE, zoom_level |-> 1,
                  tile_origin_x |-> 0, tile_origin_y |-> 0]
    /\ bnote = "none"
    /\ bprev = TRUE
    /\ bsteps = 0
    /\ fn = "none"
    /\ arg = input
    /\ out = <<>>

\* ------------------------------------------------- steps on the cache side
CacheIdle ==
    UNCHANGED <<mvars, calls, pc, frame, last, hvars, rvars, svars, bvars, pvars>>

GetOrCreate(slot, key) ==
    LET r == get_or_create([cache |-> cache, item_versions |-> item_versions],
                           held[slot], key, rasters + 1, slot)
    IN  /\ tcalls < MaxCacheCalls
        /\ tcalls' = tcalls + 1
        /\ cache' = r.tc.cache
        /\ item_versions' = r.tc.item_versions
        /\ rasters' = IF r.rasterized THEN rasters + 1 ELSE rasters
        /\ got' = [slot |-> slot, key |-> key, item |-> held[slot],
                   kind |-> r.kind, entry |-> r.entry,
                   rasterized |-> r.rasterized, prev |-> seen[key],
                   had |-> IF key \in DOMAIN cache THEN cache[key] ELSE NoEntry,
                   stored |-> IF key \in DOMAIN r.tc.cache THEN r.tc.cache[key]
                              ELSE NoEntry]
        /\ seen' = [seen EXCEPT ![key] =
                        [slot |-> slot, item |-> held[slot], kind |-> r.kind,
                         entry |-> r.entry]]
        /\ UNCHANGED held
        /\ CacheIdle

Invalidate(key) ==
    LET tc == invalidate([cache |-> cache, item_versions |-> item_versions], key)
    IN  /\ tcalls < MaxCacheCalls
        /\ tcalls' = tcalls + 1
        /\ cache' = tc.cache
        /\ item_versions' = tc.item_versions
        /\ seen' = [seen EXCEPT ![key] = NoCall]
        /\ UNCHANGED <<held, rasters, got>>
        /\ CacheIdle

\* TextureCache.clear
ClearCache ==
    /\ tcalls < MaxCacheCalls
    /\ tcalls' = tcalls + 1
    /\ cache' = <<>>
    /\ item_versions' = <<>>
    /\ seen' = [k \in Keys |-> NoCall]
    /\ UNCHANGED <<held, rasters, got>>
    /\ CacheIdle

SetField(slot, item) ==
    /\ tcalls < MaxCacheCalls
    /\ tcalls' = tcalls + 1
    /\ item # held[slot]
    /\ held' = [held EXCEPT ![slot] = item]
    /\ UNCHANGED <<cache, item_versions, rasters, got, seen>>
    /\ CacheIdle

IsShape(slot) == held[slot].cls \in ShapeItemClasses

Resize(slot, w) ==
    /\ IsShape(slot) /\ held[slot].geometry.kind # "path"
    /\ SetField(slot, Resized(held[slot], w))
Reshape(slot) ==
    /\ IsShape(slot) /\ held[slot].geometry.kind = "path"
    /\ SetField(slot, Reshaped(held[slot]))
Fade(slot) == IsShape(slot) /\ SetField(slot, Faded(held[slot], 5))
Recolour(slot) == IsShape(slot) /\ SetField(slot, Recoloured(held[slot], "blue"))
Rotate(slot) == IsShape(slot) /\ SetField(slot, Rotated(held[slot], 45))

NextCache ==
    \/ \E slot \in 1..Len(held), key \in Keys : GetOrCreate(slot, key)
    \/ \E key \in Keys : Invalidate(key)
    \/ ClearCache
    \/ \E slot \in 1..Len(held), w \in Widths : Resize(slot, w)
    \/ \E slot \in 1..Len(held) : Reshape(slot)
    \/ \E slot \in 1..Len(held) : Fade(slot)
    \/ \E slot \in 1..Len(held) : Recolour(slot)
    \/ \E slot \in 1..Len(held) : Rotate(slot)


\* ----------------------------------------------------- steps of the schema
SchemaIdle ==
    UNCHANGED <<mvars, calls, pc, frame, last, hvars, rvars, tvars, bvars, pvars,
                subject>>

ItemToDict ==
    /\ spc = "item"
    /\ wire' = item_to_dict(subject)
    /\ spc' = "dict"
    /\ UNCHANGED parsed
    /\ SchemaIdle

ParseItem ==
    /\ spc = "dict"
    /\ \E uuid \in Uuids : parsed' = parse_item(wire, uuid)
    /\ spc' = "parsed"
    /\ UNCHANGED wire
    /\ SchemaIdle

NextSchema == ItemToDict \/ ParseItem

\* ---------------------------------------------- steps of the scene builder
BuilderStep(note, b) ==
    /\ bsteps < MaxBuilderSteps
    /\ bsteps' = bsteps + 1
    /\ builder' = b
    /\ bnote' = note
    /\ bprev' = builder.needs_full_rebuild
    /\ UNCHANGED <<mvars, calls, pc, frame, last, hvars, rvars, tvars, svars, pvars>>

OnItemNotification(sig) == BuilderStep(sig, MarkFullRebuild(builder))
SetZoomLevel(value) == BuilderStep("zoomLevel", SetProperty(builder, "zoom_level", value))
SetTileOriginX(value) ==
    BuilderStep("tileOriginX", SetProperty(builder, "tile_origin_x", value))
SetTileOriginY(value) ==
    BuilderStep("tileOriginY", SetProperty(builder, "tile_origin_y", value))
RebuildGraph == builder.needs_full_rebuild /\ BuilderStep("rebuild", Rebuild(builder))

NextBuilder ==
    \/ \E sig \in ItemNotifications : OnItemNotification(sig)
    \/ \E value \in ZoomLevels : SetZoomLevel(value)
    \/ \E value \in TileOrigins : SetTileOriginX(value)
    \/ \E value \in TileOrigins : SetTileOriginY(value)
    \/ RebuildGraph

\* ------------------------------------------- a function applied to an input
Apply(name, result) ==
    /\ fn = "none"
    /\ fn' = name
    /\ out' = result
    /\ UNCHANGED <<mvars, calls, pc, frame, last, hvars, rvars, tvars, svars, bvars, arg>>

\* --- stroke widths.  arg is a width in whole units; the document model
\* counts tenths.
StrokeWidthInputs == (-5 .. 45) \cup (95 .. 105)

\* the width _parse_appearances stores for a stroke of width arg
ParseStrokeWidth ==
    Apply("parse_appearances",
          parse_appearances([appearances |->
              <<[type |-> "stroke", color |-> "#000000", width |-> arg]>>])[1].width)

\* the width updateItem(0, {"strokeWidth": arg}) stores
UpdateStrokeWidth ==
    Apply("updateItem",
          updateItem(OneItem, 0, [strokeWidth |-> Num(10 * arg)]).m.items[1].stroke_width)

NextStroke == ParseStrokeWidth \/ UpdateStrokeWidth

\* ------------------------------------------------- ids of layers and groups
\* arg.items is the sequence of the layers and groups created so far,
\* arg.fresh the positions of those created without an id, arg.uuids the
\* number of calls of uuid.uuid4(), arg.steps the steps taken; out is the id
\* of the item the last step built.

\* str(uuid.uuid4()): the n-th value generated, none of which is a value a
\* caller supplies or a value generated before
Uuid4(n) == [kind |-> "str", num |-> n, str |-> "uuid4"]

NoIds == [items |-> <<>>, fresh |-> {}, uuids |-> 0, steps |-> 0]

\* what a caller who gives no id passes
WithoutId == {None, Str("")}

SuppliedIds == {None, Str(""), Str("layer-1"), Str("group-1")}

SuppliedParents == {None, Str("layer-1"), Str("group-1")}

IdStep(name, its, at, fresh) ==
    /\ arg.steps < MaxIdSteps
    /\ fn' = name
    /\ arg' = [items |-> its, fresh |-> fresh, uuids |-> arg.uuids + 1,
               steps |-> arg.steps + 1]
    /\ out' = its[at].id
    /\ UNCHANGED <<mvars, calls, pc, frame, last, hvars, rvars, tvars, svars, bvars>>

CreateLayer(layer_id) ==
    IdStep("LayerItem",
           Append(arg.items, LayerItem("Layer", layer_id, TRUE, FALSE, Uuid4(arg.uuids + 1))),
           Len(arg.items) + 1,
           IF layer_id \notin WithoutId THEN arg.fresh ELSE arg.fresh \cup {Len(arg.items) + 1})

CreateGroup(group_id, parent_id) ==
    IdStep("GroupItem",
           Append(arg.items, GroupItem("Group", group_id, parent_id, TRUE, FALSE,
                                       Uuid4(arg.uuids + 1))),
           Len(arg.items) + 1,
           IF group_id \notin WithoutId THEN arg.fresh ELSE arg.fresh \cup {Len(arg.items) + 1})

\* the item at position k is replaced by parse_item(item_to_dict(item)), as a
\* replay of a recorded command does
RoundTrip(k) ==
    IdStep("parse_item",
           [arg.items EXCEPT ![k] = parse_item(item_to_dict(@), Uuid4(arg.uuids + 1)).item],
           k,
           arg.fresh)

\* parse_item on the dictionary of a group: the item it returns joins the
\* document, and a dictionary it rejects leaves the document as it was
ParseGroup(group_id, parent_id) ==
    LET data == [type |-> "group", name |-> "Group", id |-> group_id,
                 parentId |-> parent_id]
        r == parse_item(data, Uuid4(arg.uuids + 1))
    IN  /\ r.ok
        /\ IdStep("parse_group", Append(arg.items, r.item), Len(arg.items) + 1,
                  IF group_id \notin WithoutId THEN arg.fresh
                  ELSE arg.fresh \cup {Len(arg.items) + 1})

NextIds ==
    \/ \E layer_id \in SuppliedIds : CreateLayer(layer_id)
    \/ \E group_id \in SuppliedIds, parent_id \in SuppliedParents :
           CreateGroup(group_id, parent_id)
    \/ \E group_id \in SuppliedIds, parent_id \in SuppliedParents :
           ParseGroup(group_id, parent_id)
    \/ \E k \in 1..Len(arg.items) : RoundTrip(k)

\* ------------------------------------------------------- paths: the calls
\* the k-th point a caller passes: its anchor depends on k only, so that no
\* two points of a path coincide, and shape says which handles it carries
PointAt(k, shape) ==
    LET anchor == [x |-> 10 * k, y |-> k * k]
        hin == [x |-> 10 * k - 3, y |-> k * k - 1]
        hout == [x |-> 10 * k + 3, y |-> k * k]
    IN  CASE shape = "plain" -> anchor
          [] shape = "in" -> anchor @@ [handleIn |-> hin]
          [] shape = "out" -> anchor @@ [handleOut |-> hout]
          [] shape = "both" -> anchor @@ [handleIn |-> hin, handleOut |-> hout]
          [] shape = "empty_out" -> anchor @@ [handleOut |-> <<>>]
          [] shape = "none_in" -> anchor @@ [handleIn |-> None]

PointShapes == {"plain", "in", "out", "both", "empty_out", "none_in"}

PathPoints ==
    UNION {{[k \in 1..n |-> PointAt(k, shapes[k])] : shapes \in [1..n -> PointShapes]} :
               n \in 0..MaxPathPoints}

PathInputs ==
    {[points |-> [py |-> py, elems |-> elems], closed |-> closed] :
         py \in {"list", "tuple"}, elems \in PathPoints, closed \in BOOLEAN}
    \cup {[points |-> [py |-> "NoneType", elems |-> <<>>], closed |-> FALSE],
          [points |-> [py |-> "str", elems |-> <<"a", "b">>], closed |-> FALSE],
          [points |-> [py |-> "str", elems |-> <<"a">>], closed |-> FALSE]}

NewPathGeometry == Apply("PathGeometry", PathGeometry_init(arg.points, arg.closed))

PathFromDict ==
    Apply("from_dict", PathGeometry_from_dict([points |-> arg.points, closed |-> arg.closed]))

ParsePathItem == Apply("parse_item", parse_path_item(arg.points, arg.closed))

\* to_painter_path on the geometry the constructor returned
ToPainterPath ==
    LET made == PathGeometry_init(arg.points, arg.closed)
    IN  /\ made.raised = "none"
        /\ Apply("to_painter_path", [geometry |-> made.obj, path |-> to_painter_path(made.obj)])

NextPath == NewPathGeometry \/ PathFromDict \/ ParsePathItem \/ ToPainterPath

\* ------------------------------------------------------ moveItem: the call
\* the documents moveItem works on: layers with ids, and shapes whose parent
\* is no item or a layer before them; item k is named by its index
RECURSIVE Documents(_)
Documents(n) ==
    IF n = 0 THEN {<<>>}
    ELSE LET shorter == Documents(n - 1)
             layers(its) == {its[k].id : k \in {j \in 1..Len(its) : its[j].cls = "LayerItem"}}
         IN  shorter
             \cup {Append(its, [cls |-> "LayerItem", name |-> Len(its),
                                id |-> Uuid4(Len(its) + 1)]) :
                       its \in {d \in shorter : Len(d) = n - 1}}
             \cup UNION {{Append(its, [cls |-> "RectangleItem", name |-> Len(its),
                                       parent_id |-> pid]) :
                              pid \in {None} \cup layers(its)} :
                             its \in {d \in shorter : Len(d) = n - 1}}

MoveInputs ==
    {[items |-> its, from |-> f, to |-> t] :
         its \in Documents(MaxMoveItems), f \in -1..MaxMoveItems, t \in -1..MaxMoveItems}

MoveItem == Apply("moveItem", moveItem(arg.items, arg.from, arg.to))

\* ------------------------------------------------------ transforms: the call
PivotInputs ==
    {[t |-> [Transform(tx, rot, sx) EXCEPT !.translate_y = ty, !.scale_y = sy],
      center_x |-> cx, center_y |-> cy] :
         tx \in {0, 7, -3}, ty \in {0, 5}, rot \in {0, 90, 180, 270, -90},
         sx \in {1, 2, -1, 0}, sy \in {1, 3},
         cx \in (-MaxPivot)..MaxPivot, cy \in (-MaxPivot)..MaxPivot}

ToQMatrix4x4Centered ==
    Apply("to_qmatrix4x4_centered",
          to_qmatrix4x4_centered(arg.t, arg.center_x, arg.center_y))

\* ---------------------------------------------------------- resize: the call
\* scales and deltas in halves, geometry sizes in thirds
ResizeInputs ==
    {[current_scale |-> Rat(s, 2), geometry_size |-> Rat(g, 3), delta |-> Rat(d, 2),
      from_min_edge |-> e] :
         s \in -2..4, g \in -1..(3 * MaxResize), d \in (-2 * MaxResize)..(2 * MaxResize),
         e \in BOOLEAN}

CalculateScaleForResize ==
    Apply("calculate_scale_for_resize",
          calculate_scale_for_resize(arg.current_scale, arg.geometry_size, arg.delta,
                                     arg.from_min_edge))

\* --- rasterizing stroked shapes.  arg is the item; out what _rasterize_item
\* returns.  Every stroke width _parse_appearances lets through is tried.
MAX_STROKE_WIDTH == 100

RasterInputs ==
    {ShapeItem(g.cls, g.geometry,
               <<Fill("red", 10, TRUE), Stroke("black", w, 10, v)>>,
               IdentityTransform, "", None, TRUE, FALSE) :
         g \in {[cls |-> "RectangleItem", geometry |-> RectGeometry(0, 0, 10, 10)],
                [cls |-> "RectangleItem", geometry |-> RectGeometry(-10, 5, 1, 20)],
                [cls |-> "EllipseItem", geometry |-> EllipseGeometry(5, 5, 5, 5)]},
         w \in 0..MAX_STROKE_WIDTH, v \in BOOLEAN}

RasterizeItem ==
    Apply("_rasterize_item", rasterize_item(arg, get_item_version(arg), 1, 1))

\* --- validating twice.  arg is the dict a caller passes; out holds what
\* parse_item_data returns for it and, when it is accepted, what
\* parse_item_data returns for the validated data
AppearanceInputs ==
    {<<>>,
     <<[type |-> "fill", opacity |-> 12]>>,
     <<[type |-> "stroke", color |-> "black", width |-> 150]>>,
     <<[type |-> "gradient"]>>,
     <<[type |-> "gradient"],
       [type |-> "fill", color |-> "red", opacity |-> 5, visible |-> FALSE]>>,
     <<[type |-> "fill", color |-> "red", opacity |-> 5, visible |-> TRUE],
       [type |-> "stroke", color |-> "black", width |-> 2, opacity |-> 10, visible |-> TRUE]>>}

GeometryInputs ==
    {[type |-> "rectangle", geometry |-> [x |-> 1, y |-> 2, width |-> -5, height |-> 3]],
     [type |-> "Rectangle", geometry |-> [width |-> 4]],
     [type |-> "ellipse", geometry |-> [centerX |-> 1, radiusX |-> -2, radiusY |-> 3]],
     [type |-> "path",
      geometry |-> [points |-> <<[x |-> 0, y |-> 0],
                                 [x |-> 5, y |-> 5, handleIn |-> [x |-> 1, y |-> 1]]>>,
                    closed |-> TRUE]],
     [type |-> "path", geometry |-> [points |-> <<[x |-> 0, y |-> 0]>>]]}

ValidateInputs ==
    {[type |-> g.type, geometry |-> g.geometry, appearances |-> a, parentId |-> p,
      locked |-> TRUE] :
         g \in GeometryInputs, a \in AppearanceInputs,
         p \in {None, Str(""), Str("layer-1")}}
    \cup {[type |-> g.type, geometry |-> g.geometry, name |-> "Shape"] :
              g \in GeometryInputs}
    \cup {[type |-> t, id |-> i, name |-> "Layer 1", parentId |-> p, visible |-> FALSE] :
              t \in {"layer", "LAYER", "group", "star"},
              i \in {None, Str(""), Str("layer-1")}, p \in {Str(""), Str("layer-2")}}
    \cup {[type |-> "text", text |-> "hi", width |-> w, fontSize |-> s,
           textOpacity |-> o, parentId |-> Str("")] :
              w \in {0, 50}, s \in {4, 16, 300}, o \in {-1, 5, 12}}

ParseItemDataTwice ==
    LET first == parse_item_data(arg)
    IN  Apply("parse_item_data",
              [first |-> first,
               second |-> IF first.ok THEN parse_item_data(first.data) ELSE [ok |-> FALSE]])

Edit ==
    \/ \E item_data \in AddInputs : AddItem(item_data)
    \/ \E index \in Indices : RemoveItem(index)
    \/ \E index \in Indices, properties \in UpdateInputs : UpdateItem(index, properties)
    \/ Clear
    \/ BeginTransaction
    \/ EndTransaction

Next ==
    \/ Edit
    \/ Undo
    \/ Redo

NextReentrant ==
    \/ Edit
    \/ UndoBegin
    \/ RedoBegin
    \/ ReplayStep
    \/ ReplayEnd
    \/ ReplayReturn
    \/ \E item_data \in AddInputs : HandlerAddItem(item_data)
    \/ \E index \in Indices : HandlerRemoveItem(index)
    \/ \E index \in Indices, properties \in UpdateInputs :
          HandlerUpdateItem(index, properties)
    \/ HandlerClear

\* the calls from outside, each run to its return
Spec == ModelInit(NewModel, <<>>, <<>>, <<>>, <<>>) /\ track = "none" /\ [][Next]_vars
SpecBase ==
    /\ \E m \in NoHistoryModels : ModelInit(m, <<>>, <<>>, <<>>, <<>>)
    /\ track = "base" /\ [][Next]_vars
SpecPair ==
    /\ \E m \in SessionModels : ModelInit(m, <<>>, <<>>, <<>>, <<>>)
    /\ track = "pair" /\ [][Next]_vars
SpecTxn ==
    /\ \E m \in SessionModels : ModelInit(m, <<>>, <<>>, <<>>, <<>>)
    /\ track = "txn" /\ [][Next]_vars
SpecEffect ==
    /\ \E m \in SessionModels : ModelInit(m, <<>>, <<>>, <<>>, <<>>)
    /\ track = "effect" /\ [][Next]_vars
\* undo() and redo() in steps, with handlers calling back
SpecReentrant == ModelInit(NewModel, <<>>, <<>>, <<>>, <<>>) /\ track = "none" /\ [][NextReentrant]_vars
\* the renderer over every item sequence
SpecRender ==
    /\ \E cs \in RenderInputs : ModelInit(NewModel, RenderItems(cs), <<>>, <<>>, <<>>)
    /\ track = "none" /\ [][GetRenderOrder]_vars

SpecCache ==
    ModelInit(NewModel, <<>>, HeldItems, <<>>, <<>>) /\ track = "none" /\ [][NextCache]_vars

SpecSchema ==
    /\ \E it \in SchemaItems : ModelInit(NewModel, <<>>, <<>>, it, <<>>)
    /\ track = "none" /\ [][NextSchema]_vars

SpecBuilder ==
    ModelInit(NewModel, <<>>, <<>>, <<>>, <<>>) /\ track = "none" /\ [][NextBuilder]_vars

SpecStroke ==
    /\ \E w \in StrokeWidthInputs : ModelInit(NewModel, <<>>, <<>>, <<>>, w)
    /\ track = "none" /\ [][NextStroke]_vars

SpecIds ==
    /\ ModelInit(NewModel, <<>>, <<>>, <<>>, NoIds)
    /\ track = "none"
    /\ [][NextIds]_vars

SpecPath ==
    /\ \E input \in PathInputs : ModelInit(NewModel, <<>>, <<>>, <<>>, input)
    /\ track = "none"
    /\ [][NextPath]_vars

SpecFlags ==
    /\ \E cs \in FlaggedInputs : ModelInit(NewModel, FlaggedItems(cs), <<>>, <<>>, <<>>)
    /\ track = "none"
    /\ [][NextFlags]_vars

SpecMove ==
    /\ \E input \in MoveInputs : ModelInit(NewModel, <<>>, <<>>, <<>>, input)
    /\ track = "none"
    /\ [][MoveItem]_vars

SpecPivot ==
    /\ \E input \in PivotInputs : ModelInit(NewModel, <<>>, <<>>, <<>>, input)
    /\ track = "none"
    /\ [][ToQMatrix4x4Centered]_vars

SpecResize ==
    /\ \E input \in ResizeInputs : ModelInit(NewModel, <<>>, <<>>, <<>>, input)
    /\ track = "none"
    /\ [][CalculateScaleForResize]_vars

SpecRaster ==
    /\ \E item \in RasterInputs : ModelInit(NewModel, <<>>, <<>>, <<>>, item)
    /\ track = "none"
    /\ [][RasterizeItem]_vars

SpecValidate ==
    /\ \E data \in ValidateInputs : ModelInit(NewModel, <<>>, <<>>, <<>>, data)
    /\ track = "none"
    /\ [][ParseItemDataTwice]_vars

\* ============================================================== the claims
Mutations == {"addItem", "removeItem", "updateItem", "clear"}
\* the step is a call from outside
IsCall == calls' = calls + 1
Reverse(s) == [k \in 1..Len(s) |-> s[Len(s) + 1 - k]]
Range(s) == {s[k] : k \in 1..Len(s)}

\* C1: from a model with an empty undo stack, after addItem and removeItem
\* calls outside a transaction with undo() calls among them, once undo() has
\* emptied the undo stack the item sequence is the starting one (same length,
\* order and field values).
C1_UndoAllRestoresStart ==
    (track = "base" /\ clean /\ undo_stack = <<>>) => items = base

\* C1 witness: items were added and removed from a model of two items, and
\* undo() was called until it returned false
C1_Witness ==
    /\ track = "base" /\ clean /\ undo_stack = <<>>
    /\ edits = {"addItem", "removeItem"}
    /\ last.op = "undo" /\ last.ret = "false"
    /\ Len(base) = 2

\* the indices (from 1) whose serialized state differs from the one at
\* beginTransaction
TxnChanged ==
    {k \in 1..Len(txn.begin_items) : itemToDict(items[k]) # itemToDict(txn.begin_items[k])}

\* C2: beginTransaction(), updateItem calls on existing indices,
\* endTransaction(): one undo entry is pushed iff some item's serialized
\* state differs from its state at beginTransaction; the entry holds the prior
\* state of exactly the changed indices; one undo() restores every item.
C2_TransactionOneEntry ==
    (track = "txn" /\ txn.pure) =>
        /\ txn.state = "ended" =>
              /\ txn.pushed <=> TxnChanged # {}
              /\ Len(undo_stack) = txn.ulen + (IF TxnChanged # {} THEN 1 ELSE 0)
              /\ TxnChanged # {} =>
                    LET command == Last(undo_stack)
                    IN  /\ command.action = "transaction"
                        /\ Len(command.changes) = Cardinality(TxnChanged)
                        /\ Range(command.changes) =
                              {[index |-> k - 1, props |-> itemToDict(txn.begin_items[k])] :
                                  k \in TxnChanged}
        /\ txn.state = "undone" => last.ret = "true" /\ items = txn.begin_items

\* C2 witness: a transaction that changed both items of the model was undone
\* by one undo()
C2_Witness ==
    /\ track = "txn" /\ txn.pure /\ txn.state = "undone"
    /\ Len(redo_stack) > 0
    /\ Len(Last(redo_stack).changes) = 2
    /\ items = txn.begin_items

\* C3: outside a transaction and outside a replay, a successful addItem,
\* removeItem, updateItem and a clear() of a non-empty model push exactly one
\* command, and the redo stack is empty when the call returns.
C3_MutationPushesOne ==
    [][(/\ IsCall /\ ~transaction_active
        /\ last'.op \in Mutations /\ last'.ret = "ok"
        /\ last'.op = "clear" => items # <<>>)
       => /\ Front(undo_stack') = undo_stack
          /\ Len(undo_stack') = Len(undo_stack) + 1
          /\ redo_stack' = <<>>]_vars

\* C3 witness: an updateItem outside a transaction pushed its command and
\* cleared a redo stack that held an entry
C3_Witness ==
    /\ last.op = "updateItem" /\ last.ret = "ok" /\ ~transaction_active
    /\ \E k \in 1..Len(signals) : signals[k].sig = "redoStackChanged"
    /\ Last(undo_stack).action = "update"
    /\ redo_stack = <<>>

\* C4: after an undo() that returned true, an immediately following redo()
\* returns true and restores the item sequence and the undo stack; after a
\* redo() that returned true, undo() restores the item sequence and the redo
\* stack.
C4_UndoRedoRestores ==
    (track = "pair" /\ before.second) =>
        /\ last.ret = "true"
        /\ items = before.items
        /\ IF last.op = "redo" THEN undo_stack = before.undo_stack
           ELSE redo_stack = before.redo_stack

\* C5: a mutation called by a handler while undo()/redo() executes pushes
\* nothing onto the undo stack and leaves the redo stack; outside undo() and
\* redo() both replay flags are false.
C5_ReentrantPushesNothing ==
    /\ [][frame'.reent = frame.reent + 1 =>
            undo_stack' = undo_stack /\ redo_stack' = redo_stack]_vars
    /\ [](pc = "idle" => ~undoing /\ ~redoing)

InvalidIndex(index) == index < 0 \/ index >= count(Self)
Rejected ==
    /\ items' = items
    /\ undo_stack' = undo_stack
    /\ redo_stack' = redo_stack
    /\ signals' = <<>>

\* C7: addItem with a missing or unknown type, removeItem and updateItem with
\* an index < 0 or >= count() change neither the items nor a stack and emit
\* nothing; getItemData of such an index returns null.
C7_InvalidInputRejected ==
    /\ [][/\ \A item_data \in AddInputs :
               (/\ Get(item_data, "type", Str("")) \notin
                       {Str("rectangle"), Str("ellipse")}
                /\ AddItem(item_data)) => Rejected
          /\ \A index \in Indices :
               (InvalidIndex(index) /\ RemoveItem(index)) => Rejected
          /\ \A index \in Indices, properties \in UpdateInputs :
               (InvalidIndex(index) /\ UpdateItem(index, properties)) => Rejected]_vars
    /\ [](\A index \in Indices : InvalidIndex(index) => ~getItemData(Self, index).found)

\* C7 witness: removeItem(-1) returned on a model that holds items and
\* entries on both stacks
C7_Witness ==
    /\ last.op = "removeItem" /\ last.ret = "invalid_index"
    /\ items # <<>> /\ undo_stack # <<>> /\ redo_stack # <<>>
    /\ signals = <<>>

\* a value float() raises on
Malformed(properties) ==
    \E key \in DOMAIN properties \cap {"x", "width", "centerX", "radiusX",
                                       "strokeWidth", "fillOpacity"} :
        ~PyFloat(properties[key]).ok

\* C8: an updateItem with a malformed property value changes no field of the
\* item, pushes no undo entry and leaves the model as it was.
C8_MalformedUpdateRejected ==
    [][\A index \in Indices, properties \in UpdateInputs :
          (/\ ~InvalidIndex(index) /\ Malformed(properties)
           /\ UpdateItem(index, properties))
          => items' = items /\ undo_stack' = undo_stack /\ redo_stack' = redo_stack]_vars

SameContent(a, b) ==
    a.cls = b.cls /\ a.geometry = b.geometry /\ a.appearances = b.appearances

\* the last call repeats, for the same object, the call made before it with
\* the same key, which returned an entry that was not invalidated since
Repeated ==
    /\ got.slot # 0
    /\ got.prev.slot = got.slot
    /\ got.prev.kind = "entry"

\* C11: when get_or_create is called twice for the same item and key and the
\* item's geometry and appearances are the same at both calls, the second call
\* returns the very entry object of the first and rasterizes nothing, also
\* when the transform of the item changed in between.
C11_UnchangedItemHitsCache ==
    (Repeated /\ SameContent(got.prev.item, got.item)) =>
        /\ got.kind = "entry"
        /\ got.entry = got.prev.entry
        /\ ~got.rasterized

C11_Witness ==
    /\ Repeated
    /\ SameContent(got.prev.item, got.item)
    /\ got.item.transform # got.prev.item.transform
    /\ got.entry = got.prev.entry

\* C12: when the geometry or the appearance content of the item changed
\* between two get_or_create calls with the same key, the second call does
\* not return the cached entry of the first.
C12_ChangedItemMissesCache ==
    (Repeated /\ ~SameContent(got.prev.item, got.item)) =>
        ~(got.kind = "entry" /\ got.entry = got.prev.entry)

\* C13: get_or_create never returns, for a shape, a raster that was painted
\* from another object whose geometry or appearances differ from the shape's,
\* also when the key was used for that other object before.
C13_NoRasterOfAnotherShape ==
    (got.slot # 0 /\ got.kind = "entry" /\ got.entry.slot # got.slot) =>
        /\ got.entry.image.painted.path = got.item.geometry
        /\ got.entry.image.painted.appearances = got.item.appearances

\* C14: after get_or_create returns for a shape, the entry stored under the
\* key (if any) carries the version just computed for the item, and so does
\* every entry that is returned.
C14_StoredVersionIsCurrent ==
    (got.slot # 0 /\ got.item.cls \in ShapeItemClasses) =>
        /\ got.stored # NoEntry =>
               got.stored.item_version = get_item_version(got.item)
        /\ got.kind = "entry" =>
               got.entry.item_version = get_item_version(got.item)

\* the bounds of a shape are not empty; those of a text never are (its width
\* is at least 1 and its height is positive or that of the laid out text)
NonEmptyBounds(item) ==
    item.cls = "TextItem" \/ ~isEmpty(get_bounds(item.geometry))

\* C15: get_or_create returns None for a layer and for a group and stores
\* nothing for them; for a rectangle, an ellipse, a path or a text with
\* non-empty bounds it returns an entry and does not raise.
C15_NullOnlyForOrganizational ==
    got.slot # 0 =>
        /\ got.item.cls \in {"LayerItem", "GroupItem"} =>
               got.kind = "none" /\ got.stored = got.had
        /\ (CanBeTextured(got.item) /\ NonEmptyBounds(got.item)) =>
               got.kind = "entry"

\* ------------------------------------------------------------ notifications
\* C16: at the delivery of every notification of a call, items and both
\* stacks are already what they are when the call returns: no handler sees
\* a call half applied.
C16_HandlersSeeCompleteEffect ==
    \A k \in 1..Len(signals) : signals[k].at = Observed(Self)

\* ------------------------------------------------------------------- schema
\* C17: parse_item(item_to_dict(item)) succeeds and yields an item whose
\* fields all equal those of item: name, parent id, visible, locked,
\* geometry with the points of a path and its closed flag, appearance list,
\* transform, the text fields, and the id of a layer or group.
C17_RoundTripPreservesFields ==
    spc = "parsed" => (parsed.ok /\ parsed.item = subject)

\* ------------------------------------------------------------- item order
\* s without its element at index i (counted from 0)
Without(s, i) == [k \in 1..(Len(s) - 1) |-> IF k <= i THEN s[k] ELSE s[k + 1]]

\* C18: addItem puts the new item at index count() - 1 and leaves every other
\* item at its index; removeItem(i) takes out exactly the item at i, so the
\* items below i keep their index and those above move down by one; undo and
\* redo of an addItem or removeItem take out or put in one item at the index
\* of the command and leave the others in their order.
C18_StructuralEditsKeepOrder ==
    [][/\ \A item_data \in AddInputs :
            (AddItem(item_data) /\ last'.ret = "ok") =>
                /\ count(Self) = Len(items') - 1
                /\ Front(items') = items
       /\ \A index \in Indices :
            (RemoveItem(index) /\ last'.ret = "ok") => items' = Without(items, index)
       /\ (Undo /\ undo_stack # <<>> /\ Last(undo_stack).action = "remove") =>
              items' = Without(items, Last(undo_stack).index)
       /\ (Undo /\ undo_stack # <<>> /\ Last(undo_stack).action = "add") =>
              /\ Len(items') = Len(items) + 1
              /\ items = Without(items', Last(undo_stack).index)
       /\ (Redo /\ redo_stack # <<>> /\ Last(redo_stack).action = "remove") =>
              items' = Without(items, Last(redo_stack).index)
       /\ (Redo /\ redo_stack # <<>> /\ Last(redo_stack).action = "add") =>
              /\ Len(items') = Len(items) + 1
              /\ items = Without(items', Last(redo_stack).index)]_vars

\* C18 witness: undo() put a removed item back below another item
C18_Witness ==
    /\ last.op = "undo" /\ last.ret = "true"
    /\ redo_stack # <<>> /\ Last(redo_stack).action = "remove"
    /\ Last(redo_stack).index = 0
    /\ Len(items) >= 2 /\ items[1] # items[2]

\* ------------------------------------------------------------ scene builder
\* C19: the scene builder starts in needsFullRebuild, and from either state
\* every itemAdded, itemRemoved, itemModified and itemsCleared notification
\* and every change of the zoom level or of the tile origin leaves it in
\* needsFullRebuild.
C19_ChangesForceFullRebuild ==
    /\ [](bsteps = 0 => builder.needs_full_rebuild)
    /\ [][/\ (bsteps' # bsteps /\ bnote' \in ItemNotifications) =>
                 builder'.needs_full_rebuild
          /\ builder'.zoom_level # builder.zoom_level => builder'.needs_full_rebuild
          /\ builder'.tile_origin_x # builder.tile_origin_x =>
                 builder'.needs_full_rebuild
          /\ builder'.tile_origin_y # builder.tile_origin_y =>
                 builder'.needs_full_rebuild]_vars

\* C19 witness: an up-to-date scene builder was told of a modified item
C19_Witness ==
    /\ bnote = "itemModified" /\ ~bprev /\ builder.needs_full_rebuild
    /\ builder.zoom_level = 2 /\ builder.tile_origin_y = 100

\* ------------------------------------------------------------------ ranges
\* C20: in every state reached through addItem, updateItem, undo, redo and
\* transactions, every rectangle has a width >= 0, every ellipse a radius
\* >= 0, and every fill opacity lies in [0, 1] (0..10 tenths).
C20_SizesAndOpacitiesInRange ==
    \A k \in 1..Len(items) :
        /\ items[k].cls = "RectangleItem" => items[k].width >= 0
        /\ items[k].cls = "EllipseItem" => items[k].radius_x >= 0
        /\ items[k].fill_opacity >= 0 /\ items[k].fill_opacity <= 10

\* ------------------------------------------------------------ stroke width
\* the value of [lo, hi] nearest to v
Nearest(v, lo, hi) == IF v < lo THEN lo ELSE IF v > hi THEN hi ELSE v

\* C21: validation of an appearance and updateItem with strokeWidth both
\* store a width of [0, 100] unchanged, 0 included, and a width outside as the
\* nearest bound.
C21_StrokeWidthClamped ==
    /\ fn = "parse_appearances" => out = Nearest(arg, 0, 100)
    /\ fn = "updateItem" => out = 10 * Nearest(arg, 0, 100)

\* C22: a layer or group created without an id carries a generated id that is
\* not empty and that no other item carries, and no step (a later creation,
\* or the item_to_dict / parse_item round trip a replay makes) changes the
\* id of an item that exists.
FreshIdsDistinct ==
    \A k \in arg.fresh :
        /\ arg.items[k].id \notin WithoutId
        /\ \A j \in 1..Len(arg.items) : j # k => arg.items[j].id # arg.items[k].id

C22_IdsFreshAndStable ==
    /\ [](fn # "none" => FreshIdsDistinct)
    /\ [][fn' # "none" =>
            \A k \in 1..Len(arg.items) :
                /\ arg'.items[k].id = arg.items[k].id
                /\ arg'.items[k].cls = arg.items[k].cls]_vars

C22_Witness ==
    /\ fn = "parse_item"
    /\ Cardinality(arg.fresh) >= 2
    /\ \E k \in arg.fresh : arg.items[k].cls = "GroupItem"
    /\ \E k \in 1..Len(arg.items) : k \notin arg.fresh

\* the parent id of an item; a layer has none
ParentOf(it) == IF "parent_id" \in DOMAIN it THEN it.parent_id ELSE None

\* item b is reached from item a in at most n steps along parent ids
RECURSIVE ReachesParent(_, _, _)
ReachesParent(a, b, n) ==
    /\ n > 0
    /\ ParentOf(arg.items[a]) # None
    /\ \E c \in 1..Len(arg.items) :
           /\ arg.items[c].id = ParentOf(arg.items[a])
           /\ (c = b \/ ReachesParent(c, b, n - 1))

\* C23: the parent ids of the items never form a cycle: no item is its own
\* parent and no item is reached from itself along parent ids.
C23_NoParentCycle ==
    \A k \in 1..Len(arg.items) : ~ReachesParent(k, k, Len(arg.items))

\* the points are not a list of at least two elements
NotAPointList == arg.points.py # "list" \/ Len(arg.points.elems) < 2

\* C24: a path with fewer than two points, or whose points are not a list, is
\* rejected with a validation error (ValueError or ItemSchemaError) by the
\* constructor, by from_dict and by parse_item, and nothing is created.
C24_BadPointsRejected ==
    (fn \in {"PathGeometry", "from_dict", "parse_item"} /\ NotAPointList)
        => out.raised \in {"ValueError", "ItemSchemaError"}

\* the anchor of a point
AnchorOf(pt) == [x |-> pt.x, y |-> pt.y]

\* the segment from p to q as the rule draws it: a cubic curve when p has an
\* outgoing handle or q an incoming one, a control point that is missing being
\* the anchor of its end, and a straight line otherwise
RuleSegment(p, q) ==
    IF "handleOut" \in DOMAIN p \/ "handleIn" \in DOMAIN q
    THEN [op |-> "cubicTo",
          cp1 |-> IF "handleOut" \in DOMAIN p THEN p.handleOut ELSE AnchorOf(p),
          cp2 |-> IF "handleIn" \in DOMAIN q THEN q.handleIn ELSE AnchorOf(q),
          x |-> q.x, y |-> q.y]
    ELSE [op |-> "lineTo", x |-> q.x, y |-> q.y]

\* C30: the painter path of a path geometry starts at the first point and
\* draws every segment by the rule, in order; a closed path draws the segment
\* from the last point to the first by the same rule, an open path ends at
\* its last point.
C30_SegmentsFollowHandles ==
    fn = "to_painter_path" =>
        LET pts == out.geometry.points
            n == Len(pts)
        IN  /\ out.path[1] = [op |-> "moveTo", x |-> pts[1].x, y |-> pts[1].y]
            /\ \A i \in 1..(n - 1) : out.path[i + 1] = RuleSegment(pts[i], pts[i + 1])
            /\ out.geometry.closed =>
                   /\ Len(out.path) = n + 1
                   /\ out.path[n + 1] = RuleSegment(pts[n], pts[1])
            /\ ~out.geometry.closed => Len(out.path) = n

C30_Witness ==
    /\ fn = "to_painter_path"
    /\ out.geometry.closed
    /\ Len(out.geometry.points) = 3
    /\ "handleOut" \notin DOMAIN out.geometry.points[3]
    /\ "handleIn" \in DOMAIN out.geometry.points[1]
    /\ out.path[4].op = "cubicTo"
    /\ \E i \in 2..3 : out.path[i].op = "lineTo"

\* the names of the items of a sequence, in order
NamesOf(its) == [k \in 1..Len(its) |-> its[k].name]

ThreeShapes ==
    [k \in 1..3 |-> [cls |-> "RectangleItem", name |-> k - 1, parent_id |-> None]]
TwoLayers ==
    <<[cls |-> "LayerItem", name |-> 0, id |-> Uuid4(1)],
      [cls |-> "RectangleItem", name |-> 1, parent_id |-> Uuid4(1)],
      [cls |-> "LayerItem", name |-> 2, id |-> Uuid4(3)],
      [cls |-> "RectangleItem", name |-> 3, parent_id |-> Uuid4(3)]>>

C27_PivotMapsToTranslatedPivot ==
    fn = "to_qmatrix4x4_centered" =>
        IF arg.t.translate_x = 0 /\ arg.t.translate_y = 0 /\ arg.t.rotate = 0
               /\ arg.t.scale_x = 1 /\ arg.t.scale_y = 1
        THEN out = [m11 |-> 1, m12 |-> 0, m21 |-> 0, m22 |-> 1, dx |-> 0, dy |-> 0]
        ELSE map_point(out, arg.center_x, arg.center_y)
                 = [x |-> arg.center_x + arg.t.translate_x,
                    y |-> arg.center_y + arg.t.translate_y]

C27_Witness ==
    /\ fn = "to_qmatrix4x4_centered"
    /\ arg.t.rotate = 90
    /\ arg.t.scale_x = 2
    /\ arg.t.translate_x = 7
    /\ arg.center_x = 2
    /\ arg.center_y = -1
    /\ out.m12 # 0

\* C28: an updateItem, or a clear() of a model with items, made outside a
\* transaction and followed at once by undo() leaves the item sequence as it
\* was before the operation, and a redo() that follows leaves it as the
\* operation left it; both calls return true.
C28_UndoRedoOfUpdateAndClear ==
    (track = "effect" /\ before.op \in {"updateItem", "clear"}) =>
        /\ before.stage = "undone" => last.ret = "true" /\ items = before.items
        /\ before.stage = "redone" => last.ret = "true" /\ items = before.after

\* dictionaries d and e agree on every key but key
SameButFor(d, e, key) ==
    /\ DOMAIN d \ {key} = DOMAIN e \ {key}
    /\ \A k \in DOMAIN d \ {key} : d[k] = e[k]

\* the item is one that get_or_create rasterizes: a rectangle, an ellipse or
\* a path whose bounds are not empty
Rasterizable(item) ==
    item.cls \in ShapeItemClasses /\ ~isEmpty(get_bounds(item.geometry))

C31_ResizeKeepsSizeAtLeastOne ==
    fn = "calculate_scale_for_resize" =>
        IF arg.geometry_size.n > 0
        THEN LET shown == [n |-> arg.geometry_size.n * arg.current_scale.n,
                           d |-> arg.geometry_size.d * arg.current_scale.d]
                 moved == IF arg.from_min_edge
                          THEN [n |-> shown.n * arg.delta.d - arg.delta.n * shown.d,
                                d |-> shown.d * arg.delta.d]
                          ELSE [n |-> shown.n * arg.delta.d + arg.delta.n * shown.d,
                                d |-> shown.d * arg.delta.d]
                 wanted == IF moved.n >= moved.d THEN moved ELSE [n |-> 1, d |-> 1]
             IN  /\ out.d > 0 /\ out.n > 0
                 /\ out.n * arg.geometry_size.n * wanted.d
                        = wanted.n * out.d * arg.geometry_size.d
                 /\ out.n * arg.geometry_size.n >= out.d * arg.geometry_size.d
        ELSE out = arg.current_scale

C31_Witness ==
    /\ fn = "calculate_scale_for_resize"
    /\ arg.geometry_size = [n |-> 2, d |-> 3]
    /\ arg.from_min_edge
    /\ arg.delta = [n |-> 3, d |-> 1]
    /\ arg.current_scale = [n |-> 2, d |-> 1]
    /\ out = [n |-> 3, d |-> 2]

\* ------------------------------------------------------------- transactions
\* C32: beginTransaction() in an open transaction keeps the snapshot of the
\* first and changes nothing else; endTransaction() in an open transaction
\* closes it; endTransaction() without an open transaction changes nothing
\* and emits nothing;
\* the snapshot is empty whenever no transaction is open.
C32_NestedBeginIgnored ==
    /\ [](~transaction_active => transaction_snapshot = <<>>)
    /\ [][/\ (BeginTransaction /\ transaction_active) =>
                 /\ transaction_active'
                 /\ UNCHANGED <<transaction_snapshot, items, undo_stack, redo_stack>>
          /\ (EndTransaction /\ transaction_active) => ~transaction_active'
          /\ (EndTransaction /\ ~transaction_active) =>
                 /\ UNCHANGED <<items, undo_stack, redo_stack, transaction_active,
                                transaction_snapshot>>
                 /\ signals' = <<>>]_vars

C32_Witness ==
    /\ last.op = "beginTransaction"
    /\ transaction_active
    /\ transaction_snapshot # ItemDicts(items)
    /\ Len(transaction_snapshot) = 1

\* ------------------------------------------------------------------- stacks
\* C33: an undo() that returns true takes the top command off the undo stack
\* and puts one command on top of the redo stack, all other commands staying;
\* a redo() that returns true does the reverse; the two stack sizes add up
\* to the same number before and after, and no undo() removes a command from
\* the redo stack.
C33_ReplayMovesOneCommand ==
    [][/\ (Undo /\ last'.ret = "true") =>
              /\ undo_stack' = Front(undo_stack)
              /\ Len(redo_stack') = Len(redo_stack) + 1
              /\ Front(redo_stack') = redo_stack
       /\ (Redo /\ last'.ret = "true") =>
              /\ redo_stack' = Front(redo_stack)
              /\ Len(undo_stack') = Len(undo_stack) + 1
              /\ Front(undo_stack') = undo_stack
       /\ ((Undo \/ Redo) /\ last'.ret = "true") =>
              Len(undo_stack') + Len(redo_stack') = Len(undo_stack) + Len(redo_stack)
       /\ Undo => /\ Len(redo_stack') >= Len(redo_stack)
                  /\ SubSeq(redo_stack', 1, Len(redo_stack)) = redo_stack]_vars

C33_Witness ==
    /\ last.op = "redo"
    /\ last.ret = "true"
    /\ Len(undo_stack) = 1
    /\ Len(redo_stack) = 1
    /\ undo_stack[1].action = "remove"
    /\ redo_stack[1].action = "update"

\* every index the command records is within the item sequence: the index of
\* an item to delete or replace is that of an item, the index of an item to
\* insert is at most the length
IndicesWithinBounds(command) ==
    CASE command.action \in {"remove", "update"} ->
           0 <= command.index /\ command.index < Len(items)
      [] command.action = "add" ->
           0 <= command.index /\ command.index <= Len(items)
      [] command.action = "transaction" ->
           \A k \in 1..Len(command.changes) :
               0 <= command.changes[k].index /\ command.changes[k].index < Len(items)
      [] OTHER -> TRUE

\* C34: between calls, the command on top of the undo stack and the command
\* on top of the redo stack record only indices within the item sequence,
\* and no undo() or redo() fails with an index out of range.
C34_TopIndicesValid ==
    pc = "idle" =>
        /\ undo_stack # <<>> => IndicesWithinBounds(Last(undo_stack))
        /\ redo_stack # <<>> => IndicesWithinBounds(Last(redo_stack))
        /\ last.ret # "raised"

ItemSignals == {"itemAdded", "itemRemoved", "itemModified", "itemsCleared"}

\* C35: a call of addItem, removeItem, updateItem, clear, undo or redo that returns with the item sequence different from before has emitted an itemAdded, itemRemoved, itemModified or itemsCleared during the call.
C35_ChangeIsNotified ==
    [][(pc = "idle" /\ pc' = "idle" /\ items' # items) =>
           \E k \in 1..Len(signals') : signals'[k].sig \in ItemSignals]_vars

\* C36: the image _rasterize_item creates for an untransformed shape holds everything the shape paints, the half of every permitted stroke width that lies outside the bounds included: nothing is painted outside the image.
C36_SurfaceCoversPaint ==
    (/\ fn = "_rasterize_item" /\ out.kind = "entry"
     /\ out.entry.image.painted.drawn /\ out.entry.image.painted.mapped_by = <<>>) =>
        LET box == PaintedBox(out.entry.image)
        IN  /\ 0 <= box.left /\ box.right <= 2 * out.entry.image.width
            /\ 0 <= box.top /\ box.bottom <= 2 * out.entry.image.height

\* C37: for every dict parse_item_data accepts, parse_item_data of the validated data it returned is accepted too and returns the same type, name and validated data.
C37_ValidationIdempotent ==
    (fn = "parse_item_data" /\ out.first.ok) => out.second = out.first

====
